---- MODULE Spec2Model ----
(***************************************************************************)
(* Tool-augmented completion loop of the chat service:                     *)
(*   ChatService.generate_response   (app/services/chat_service.py)        *)
(*   ChatService._process_tool_call  (app/services/chat_service.py)        *)
(*   IntelligenceService.find_fuzzy_match (app/services/intelligence.py)   *)
(*                                                                         *)
(* Tool names are sequences of one-character strings so that the           *)
(* similarity ratio of difflib can be computed on them.                    *)
(***************************************************************************)
EXTENDS Integers, Sequences, FiniteSets, TLC

VARIABLES
    pc,                 \* position of generate_response
    messages_db,        \* rows of the messages table written by this turn
    formatted_messages, \* the history list handed to chat_completion
    mcp_tools,          \* remote catalog fetched at the start of the turn
    message,            \* response.choices[0].message of the latest LLM call
    round,              \* number of completed iterations of the correction loop
    has_error,          \* has_error of the latest folded batch
    llm_calls,          \* number of chat_completion invocations so far
    sent,               \* the history as passed to the latest chat_completion
    tasks,              \* the _process_tool_call coroutines of the current batch
    tool_executions,    \* rows of the tool_executions table
    executed,           \* log of capability invocations (execute / call_mcp_tool)
    batches,            \* log of the batches that were started
    emitted,            \* number of tool calls the model has emitted in this turn
    responses,          \* log of the responses chat_completion has returned
    response,           \* the variable `response` of generate_response
    retval,             \* what generate_response has returned to its caller
    now,                \* the clock (datetime.utcnow() and the store's clock), in seconds
    ticks,              \* number of clock advances so far
    store,              \* the keys of the shared counter store (Redis)
    redis,              \* redis_manager.redis: "none", or a client whose store is "up" / "down"
    workers,            \* the requests / quota calls being handled, one per worker
    nreq,               \* number of requests and quota calls started so far
    admitted,           \* per rate key, the times at which _check_limit admitted a call;
                        \* per quota key, the amounts check_token_usage has charged
    servers,            \* per configured server, what its subprocess does
    started,            \* mcp_orchestrator.initialize() has been called
    clients,            \* mcp_orchestrator._clients: the server ids, in insertion order
    exit_stack,         \* the contexts entered on mcp_orchestrator._exit_stack
    opened,             \* the contexts that have been entered so far
    closed,             \* the contexts that have been exited so far
    orch,               \* the orchestrator operation in progress, or the last one
    stream,             \* the streamed turn: generate_response_stream and its SSE endpoint
    mcp_client,         \* an MCPClient object used directly, outside the orchestrator
    provider,           \* settings.LLM_PROVIDER, which selects the adapter llm_service
    regen               \* the conversations and messages tables and regenerate_last_response

vars == <<pc, messages_db, formatted_messages, mcp_tools, message, round, has_error,
          llm_calls, sent, tasks, tool_executions, executed, batches, emitted,
          responses, response, retval,
          now, ticks, store, redis, workers, nreq, admitted,
          servers, started, clients, exit_stack, opened, closed, orch,
          stream, mcp_client, provider, regen>>

\* the state of one turn of the chat service, and the state of the governor
turn_vars == <<pc, messages_db, formatted_messages, mcp_tools, message, round, has_error,
               llm_calls, sent, tasks, tool_executions, executed, batches, emitted,
               responses, response, retval>>

gov_vars == <<now, ticks, store, redis, workers, nreq, admitted>>

\* the state of the MCP orchestrator
orch_vars == <<servers, started, clients, exit_stack, opened, closed, orch>>

\* the state of the other entry points of the chat service, and the
\* configuration
ext_vars == <<stream, mcp_client, provider, regen>>

----------------------------------------------------------------------------
(* Bounds of the model *)

\* total number of tool calls the model emits within one turn
MaxCalls == 3
\* longest requested tool name drawn in the single-call specification
MaxNameLen == 4

(* Program constants *)

max_corrections == 2
\* threshold = 0.7 of find_fuzzy_match, as the fraction ThresholdNum / ThresholdDen
ThresholdNum == 7
ThresholdDen == 10

----------------------------------------------------------------------------
(* Helpers *)

Range(s) == {s[i] : i \in DOMAIN s}

Min(a, b) == IF a <= b THEN a ELSE b

Alphabet == <<"a", "b", "c">>

\* code point order of the characters
Ord(ch) == CHOOSE i \in DOMAIN Alphabet : Alphabet[i] = ch

\* Python's str comparison x < y: lexicographic by code point
RECURSIVE StrLess(_, _)
StrLess(x, y) ==
    IF y = <<>> THEN FALSE
    ELSE IF x = <<>> THEN TRUE
    ELSE IF Head(x) # Head(y) THEN Ord(Head(x)) < Ord(Head(y))
    ELSE StrLess(Tail(x), Tail(y))

----------------------------------------------------------------------------
(* difflib.SequenceMatcher, as used by difflib.get_close_matches.          *)
(* Indices are 1-based and ranges are half-open: alo .. ahi-1.             *)

\* a[i .. i+k-1] = b[j .. j+k-1]
IsBlock(a, b, i, j, k) == \A t \in 0..(k - 1) : a[i + t] = b[j + t]

\* SequenceMatcher.find_longest_match without junk: the longest matching
\* block, the one starting earliest in a, then earliest in b
find_longest_match(a, b, alo, ahi, blo, bhi) ==
    LET cands == {c \in (alo..(ahi - 1)) \X (blo..(bhi - 1)) \X (1..Min(ahi - alo, bhi - blo)) :
                     /\ c[1] + c[3] <= ahi
                     /\ c[2] + c[3] <= bhi
                     /\ IsBlock(a, b, c[1], c[2], c[3])}
        Better(c, d) == \/ c[3] > d[3]
                        \/ c[3] = d[3] /\ c[1] < d[1]
                        \/ c[3] = d[3] /\ c[1] = d[1] /\ c[2] < d[2]
    IN  IF cands = {} THEN <<alo, blo, 0>>
        ELSE CHOOSE c \in cands : \A d \in cands : d = c \/ Better(c, d)

\* sum of the sizes of SequenceMatcher.get_matching_blocks
RECURSIVE matching_size(_, _, _, _, _, _)
matching_size(a, b, alo, ahi, blo, bhi) ==
    LET m == find_longest_match(a, b, alo, ahi, blo, bhi)
    IN  IF m[3] = 0 THEN 0
        ELSE m[3] + matching_size(a, b, alo, m[1], blo, m[2])
                  + matching_size(a, b, m[1] + m[3], ahi, m[2] + m[3], bhi)

\* SequenceMatcher.ratio() = 2.0 * matches / (len(a) + len(b)), 1.0 when both
\* are empty; kept as the fraction <<numerator, denominator>>
ratio(a, b) ==
    IF Len(a) + Len(b) = 0 THEN <<1, 1>>
    ELSE <<2 * matching_size(a, b, 1, Len(a) + 1, 1, Len(b) + 1), Len(a) + Len(b)>>

\* r >= threshold
ReachesCutoff(r) == r[1] * ThresholdDen >= ThresholdNum * r[2]

\* r1 < r2 on fractions
RatioLess(r1, r2) == r1[1] * r2[2] < r2[1] * r1[2]

----------------------------------------------------------------------------
(* difflib.get_close_matches(word, possibilities, n=1, cutoff=threshold)   *)

\* Every possibility x with SequenceMatcher(a=x, b=word).ratio() >= cutoff is
\* scored, and heapq.nlargest(1, ...) keeps the largest (score, x) pair.
\* (real_quick_ratio and quick_ratio are upper bounds of ratio, so testing
\* them first removes nothing that ratio would keep.)  The result is the list
\* `matches`: empty, or holding the one best name.
get_close_matches(word, possibilities) ==
    LET result == {x \in Range(possibilities) : ReachesCutoff(ratio(x, word))}
        Larger(x, y) == \/ RatioLess(ratio(y, word), ratio(x, word))
                        \/ /\ ~RatioLess(ratio(x, word), ratio(y, word))
                           /\ StrLess(y, x)
    IN  IF result = {} THEN <<>>
        ELSE <<CHOOSE x \in result : \A y \in result : y = x \/ Larger(x, y)>>

\* a variant that accepts every candidate whatever its ratio
find_fuzzy_match_no_cutoff(tool_name, available_tools) ==
    LET Larger(x, y) == \/ RatioLess(ratio(y, tool_name), ratio(x, tool_name))
                        \/ /\ ~RatioLess(ratio(x, tool_name), ratio(y, tool_name))
                           /\ StrLess(y, x)
        result == Range(available_tools)
    IN  IF result = {} THEN <<>>
        ELSE <<CHOOSE x \in result : \A y \in result : y = x \/ Larger(x, y)>>

\* IntelligenceService.find_fuzzy_match: <<>> stands for None
find_fuzzy_match(tool_name, available_tools) ==
    get_close_matches(tool_name, available_tools)

----------------------------------------------------------------------------
(* Tool catalog: the local registry and the remote catalog *)

\* an input schema: declared = the schema object is truthy (`if schema:`)
NoSchema == [declared |-> FALSE, required |-> {}, properties |-> {}]
QuerySchema == [declared |-> TRUE, required |-> {"query"},
                properties |-> {<<"query", "string">>}]

\* None for a tool lookup
NoTool == [found |-> FALSE]

Tool(n, srv, schema) ==
    [found |-> TRUE, name |-> n, server_name |-> srv, input_schema |-> schema]

\* ToolRegistry._tools after register_local_tools(), in registration order
registry_tools == << Tool(<<"a", "b", "c", "b">>, "local", QuerySchema),
                     Tool(<<"c", "c">>, "local", QuerySchema) >>

\* ToolRegistry.get_tool
get_tool(name) ==
    IF \E i \in DOMAIN registry_tools : registry_tools[i].name = name
    THEN registry_tools[CHOOSE i \in DOMAIN registry_tools : registry_tools[i].name = name]
    ELSE NoTool

\* next((t for t in mcp_tools if t["name"] == name), None)
find_mcp_tool(mcps, name) ==
    IF \E i \in DOMAIN mcps : mcps[i].name = name
    THEN mcps[CHOOSE i \in DOMAIN mcps :
                 /\ mcps[i].name = name
                 /\ \A j \in DOMAIN mcps : mcps[j].name = name => i <= j]
    ELSE NoTool

\* the names of a list of tools, in list order
tool_names(ts) == [i \in DOMAIN ts |-> ts[i].name]

\* the results mcp_orchestrator.list_all_tools() can give for a turn
McpCatalogs ==
    { <<>>,
      << Tool(<<"a", "b", "c", "c">>, "budget_service", QuerySchema) >>,
      << Tool(<<"a", "b", "c", "c">>, "budget_service", NoSchema),
         Tool(<<"b", "a">>, "budget_service", QuerySchema) >> }

----------------------------------------------------------------------------
(* Argument payloads: json.loads and jsonschema.validate *)

RawPayloads == {"{\"query\": \"x\"}", "{\"query\": 1}", "{}", "{\"query\": "}

\* json.loads on the payloads above: an object is the set of its
\* <<key, JSON type of the value>> pairs; ok = FALSE is JSONDecodeError
json_loads(raw) ==
    CASE raw = "{\"query\": \"x\"}" -> [ok |-> TRUE, value |-> {<<"query", "string">>}]
      [] raw = "{\"query\": 1}"     -> [ok |-> TRUE, value |-> {<<"query", "integer">>}]
      [] raw = "{}"                 -> [ok |-> TRUE, value |-> {}]
      [] OTHER                      -> [ok |-> FALSE, value |-> {}]

\* the violations jsonschema finds: a missing required key, a value of
\* another type than the property declares
violations(instance, schema) ==
    {<<"required", k>> : k \in {r \in schema.required : \A kv \in instance : kv[1] # r}}
    \cup
    {<<"type", kv[1]>> : kv \in {x \in instance :
                                   \E p \in schema.properties : p[1] = x[1] /\ p[2] # x[2]}}

----------------------------------------------------------------------------
(* ChatService._process_tool_call, step 1: resolve the tool *)

\* a variant that consults the fuzzy matcher for every name
resolve_always_fuzzy(original_tool_name, mcps) ==
    LET available_names == tool_names(registry_tools) \o tool_names(mcps)
        matches == find_fuzzy_match(original_tool_name, available_names)
        n == IF matches # <<>> THEN matches[1] ELSE original_tool_name
    IN  [resolved_name |-> n, local_tool |-> get_tool(n),
         target_mcp_tool |-> find_mcp_tool(mcps, n), fuzzy |-> TRUE]

\* fuzzy = find_fuzzy_match was called
resolve(original_tool_name, mcps) ==
    LET local_tool == get_tool(original_tool_name)
        target_mcp_tool == find_mcp_tool(mcps, original_tool_name)
        available_names == tool_names(registry_tools) \o tool_names(mcps)
        matches == find_fuzzy_match(original_tool_name, available_names)
    IN  IF local_tool.found \/ target_mcp_tool.found
        THEN [resolved_name |-> original_tool_name, local_tool |-> local_tool,
              target_mcp_tool |-> target_mcp_tool, fuzzy |-> FALSE]
        ELSE IF matches # <<>>
        THEN [resolved_name |-> matches[1], local_tool |-> get_tool(matches[1]),
              target_mcp_tool |-> find_mcp_tool(mcps, matches[1]), fuzzy |-> TRUE]
        ELSE [resolved_name |-> original_tool_name, local_tool |-> NoTool,
              target_mcp_tool |-> NoTool, fuzzy |-> TRUE]

----------------------------------------------------------------------------
(* ChatService._process_tool_call as a coroutine.  Its synchronous prefix   *)
(* (parse, resolve, validate) runs when the batch is started; after it the *)
(* coroutine is at                                                         *)
(*   "exec"    -> awaiting local_tool.execute / call_mcp_tool,             *)
(*   "persist" -> awaiting the commit of the ToolExecution row,            *)
(*   "done" (returned its tool message) or "raised" (an exception left it) *)

\* None
None == [none |-> TRUE]

NewTask ==
    [pc |-> "new", status |-> "success", error_msg |-> None, result_content |-> None,
     resolved_name |-> <<>>, server_name |-> "local", tool_args |-> {},
     kind |-> "none", fuzzy |-> FALSE]

\* lines 40-93 up to the first await, given the resolution r of the name;
\* check = the schema is enforced
start_with(tool_call, r, check) ==
    LET parsed == json_loads(tool_call.arguments)
        schema == IF r.local_tool.found THEN r.local_tool.input_schema
                  ELSE IF r.target_mcp_tool.found THEN r.target_mcp_tool.input_schema
                  ELSE NoSchema
        server == IF ~r.local_tool.found /\ r.target_mcp_tool.found
                  THEN r.target_mcp_tool.server_name ELSE "local"
        viol == IF check /\ schema.declared THEN violations(parsed.value, schema) ELSE {}
        base == [NewTask EXCEPT !.resolved_name = r.resolved_name, !.server_name = server,
                                !.tool_args = parsed.value, !.fuzzy = r.fuzzy]
        schema_error == [kind |-> "Schema validation failed",
                         detail |-> CHOOSE v \in viol : TRUE]
        not_found == [kind |-> "Tool not found", detail |-> tool_call.name]
    IN  IF ~parsed.ok
        THEN \* json.loads raises before the try block is entered
             [NewTask EXCEPT !.pc = "raised"]
        ELSE IF viol # {}
        THEN [base EXCEPT !.pc = "persist", !.status = "error",
                          !.error_msg = schema_error,
                          !.result_content = [error |-> schema_error]]
        ELSE IF r.local_tool.found
        THEN [base EXCEPT !.pc = "exec", !.kind = "local"]
        ELSE IF r.target_mcp_tool.found
        THEN [base EXCEPT !.pc = "exec", !.kind = "mcp"]
        ELSE [base EXCEPT !.pc = "persist", !.status = "error",
                          !.error_msg = not_found,
                          !.result_content = [error |-> not_found]]

\* a variant that does not validate the arguments
process_start_unvalidated(tool_call, mcps) ==
    start_with(tool_call, resolve(tool_call.name, mcps), FALSE)

process_start(tool_call, mcps) ==
    start_with(tool_call, resolve(tool_call.name, mcps), TRUE)

\* what the awaited capability can do: return, raise, or (remote only, under
\* asyncio.wait_for in MCPClient.call_tool) time out, which raises TimeoutError
ExecOutcomes(kind) == IF kind = "mcp" THEN {"ok", "raise", "timeout"} ELSE {"ok", "raise"}

\* a variant in which an exception of the capability leaves the coroutine
exec_done_uncaught(task, outcome) ==
    IF outcome = "ok"
    THEN [task EXCEPT !.pc = "persist", !.result_content = [result |-> task.resolved_name]]
    ELSE [task EXCEPT !.pc = "raised"]

\* lines 85-97: the result, or the exception caught as an error result
exec_done(task, outcome) ==
    IF outcome = "ok"
    THEN [task EXCEPT !.pc = "persist", !.result_content = [result |-> task.resolved_name]]
    ELSE LET e == [kind |-> "Exception", detail |-> <<outcome>>]
         IN  [task EXCEPT !.pc = "persist", !.status = "error", !.error_msg = e,
                          !.result_content = [error |-> e]]

\* json.dumps(result_content)
json_dumps(v) == [json |-> v]

\* a variant that tags the result with the execution id instead of the call id
tool_message_by_execution_id(tool_call, task) ==
    [role |-> "tool", tool_call_id |-> "execution_id", name |-> task.resolved_name,
     content |-> json_dumps(task.result_content), status |-> task.status]

\* lines 123-129: the dict the coroutine returns
tool_message(tool_call, task) ==
    [role |-> "tool", tool_call_id |-> tool_call.id, name |-> task.resolved_name,
     content |-> json_dumps(task.result_content), status |-> task.status]

\* lines 108-119: the ToolExecution row; batch and idx tell which call of
\* which batch wrote the row
execution_row(b, i, task) ==
    [batch |-> b, idx |-> i, tool_name |-> task.resolved_name,
     server_name |-> task.server_name, arguments |-> task.tool_args,
     result |-> task.result_content, status |-> task.status,
     error_message |-> task.error_msg]

----------------------------------------------------------------------------
(* ChatService.generate_response *)

\* the user turn passed in `messages`
UserMessage == [role |-> "user", content |-> "Search for AI news"]

\* IntelligenceService.detect_intent on the user turns of the model: the
\* intent with the most keywords contained in the lowered text ("search" is
\* a keyword of "research"), "general" when no keyword occurs
detect_intent(user_input) ==
    CASE user_input = "Search for AI news" -> "research"
      [] user_input = "Hello" -> "general"
      [] OTHER -> "general"

\* lines 155-158: the system prompt inserted in front for some intents
intent_prompt(intent) ==
    IF intent \in {"planning", "coding"}
    THEN <<[role |-> "system", content |-> [intent |-> intent]]>>
    ELSE <<>>

\* the tool calls the model can emit in the turn specification
ToolCallPool ==
    { \* an exact remote name with valid arguments
      [id |-> "call_1", name |-> <<"a", "b", "c", "c">>, arguments |-> "{\"query\": \"x\"}"],
      \* a misspelt local name with an argument of the wrong type
      [id |-> "call_2", name |-> <<"c", "c", "c">>,      arguments |-> "{\"query\": 1}"],
      \* a name that no catalog name is similar to
      [id |-> "call_3", name |-> <<"b", "b">>,           arguments |-> "{}"],
      \* a payload that is no JSON document
      [id |-> "call_4", name |-> <<"c", "c">>,           arguments |-> "{\"query\": "] }

\* the batches of at most n calls
BatchesUpTo(n) == UNION {[1..k -> ToolCallPool] : k \in 0..n}

\* the remote catalogs list_all_tools gives in the turn specification
TurnCatalogs ==
    { << Tool(<<"a", "b", "c", "c">>, "budget_service", QuerySchema) >> }

\* message.model_dump() of an assistant turn
model_dump(m) == [role |-> "assistant", content |-> m.content, tool_calls |-> m.tool_calls]

\* MockMessage.model_dump() of the Anthropic mapping, llm_service.py lines
\* 175-176: role and content only
mock_model_dump(m) == [role |-> "assistant", content |-> m.content]

\* line 179: message.model_dump() of the message object the adapter returned
message_dump(p, m) == IF p = "anthropic" THEN mock_model_dump(m) ELSE model_dump(m)

\* `for _ in range(max_corrections)`: another iteration is entered
loop_unbounded(r) == TRUE

loop_continues(r) == r < max_corrections

\* a variant that never takes the break of line 176
has_tool_calls_always(m) == TRUE

\* line 176: `if not message.tool_calls: break`; <<>> stands for None and []
has_tool_calls(m) == m.tool_calls # <<>>

\* line 209: `if not has_error: break`
break_after_batch(err) == ~err

\* results in the order in which the rows were committed
gather_in_completion_order(calls, ts) ==
    LET n == Len(calls)
        Rank(i) == Cardinality({j \in 1..n : ts[j].finished <= ts[i].finished})
    IN  [k \in 1..n |-> LET i == CHOOSE i \in 1..n : Rank(i) = k
                        IN  tool_message(calls[i], ts[i])]

\* asyncio.gather(*tool_tasks): the results in the order of the awaitables
gather(calls, ts) == [i \in 1..Len(calls) |-> tool_message(calls[i], ts[i])]

\* res after res.pop("status")
without_status(res) ==
    [role |-> res.role, tool_call_id |-> res.tool_call_id, name |-> res.name,
     content |-> res.content]

\* error_details of lines 189-196: the contents of the failed results
error_details(results) ==
    LET F[k \in 0..Len(results)] ==
            IF k = 0 THEN <<>>
            ELSE IF results[k].status = "error" THEN Append(F[k - 1], results[k].content)
            ELSE F[k - 1]
    IN  F[Len(results)]

batch_has_error(results) == \E k \in DOMAIN results : results[k].status = "error"

correction_hint(results) ==
    [role |-> "system", content |-> [failed_with |-> error_details(results)]]

\* a variant that injects the hint after every batch
fold_always_hint(history, results) ==
    history \o [k \in DOMAIN results |-> without_status(results[k])]
            \o <<correction_hint(results)>>

\* lines 188-203: the history after the batch has been folded in
fold(history, results) ==
    history \o [k \in DOMAIN results |-> without_status(results[k])]
            \o (IF batch_has_error(results) THEN <<correction_hint(results)>> ELSE <<>>)

----------------------------------------------------------------------------
(* The rate / quota governor: app/middleware/rate_limit.py.                *)
(* Every awaited store operation is one step of the worker that handles    *)
(* the request; the store is Redis, reached through redis_manager.redis.   *)

\* RateLimiter.tiers
tiers ==
    [free       |-> [requests_per_minute |-> 10, requests_per_hour |-> 100,
                     requests_per_day |-> 1000, tokens_per_day |-> 100000],
     pro        |-> [requests_per_minute |-> 60, requests_per_hour |-> 1000,
                     requests_per_day |-> 10000, tokens_per_day |-> 1000000],
     enterprise |-> [requests_per_minute |-> 300, requests_per_hour |-> 10000,
                     requests_per_day |-> 100000, tokens_per_day |-> 10000000]]

\* self.tiers.get(tier, self.tiers["free"])
limits_for(tier) == IF tier \in DOMAIN tiers THEN tiers[tier] ELSE tiers["free"]

\* the windows of check_rate_limit in the order in which they are checked,
\* with the window_seconds passed to _check_limit
Windows == << [name |-> "minute", window_seconds |-> 60],
              [name |-> "hour",   window_seconds |-> 3600],
              [name |-> "day",    window_seconds |-> 86400] >>

\* the ceiling passed to _check_limit for window w
window_limit(limits, w) ==
    CASE w = 1 -> limits.requests_per_minute
      [] w = 2 -> limits.requests_per_hour
      [] OTHER -> limits.requests_per_day

\* the arguments of _check_limit on the IP path of the middleware
ip_limit == 5
ip_window_seconds == 60

\* now.strftime('%Y%m%d%H%M'), ('%Y%m%d%H'), ('%Y%m%d'): the time truncated to
\* its minute, hour or day, as the number of that period
strftime(t, granularity) ==
    CASE granularity = "minute" -> t \div 60
      [] granularity = "hour"   -> t \div 3600
      [] OTHER                  -> t \div 86400

\* f"rate_limit:{user_id}:{window}:{bucket}"
rate_key(user_id, w, t) ==
    [prefix |-> "rate_limit", id |-> user_id, window |-> Windows[w].name,
     bucket |-> strftime(t, Windows[w].name)]

\* a variant that keys the anonymous counter by one shared id
ip_key_shared(client_ip, t) ==
    [prefix |-> "rate_limit:ip", id |-> "anonymous", window |-> "minute",
     bucket |-> strftime(t, "minute")]

\* f"rate_limit:ip:{client_ip}:minute:{bucket}"
ip_key(client_ip, t) ==
    [prefix |-> "rate_limit:ip", id |-> client_ip, window |-> "minute",
     bucket |-> strftime(t, "minute")]

\* f"token_usage:{user_id}:day:{bucket}"
token_key(user_id, t) ==
    [prefix |-> "token_usage", id |-> user_id, window |-> "day",
     bucket |-> strftime(t, "day")]

(* The store operations the governor uses.  A key holds an integer and     *)
(* possibly a time to live: expires is the time at which it is removed.    *)

\* GET: found = FALSE is None
redis_get(st, k) ==
    IF k \in DOMAIN st THEN [found |-> TRUE, value |-> st[k].value]
    ELSE [found |-> FALSE, value |-> 0]

\* SET key value EX seconds: replaces the value and the time to live
redis_set(st, k, v, ex, t) ==
    (k :> [value |-> v, has_ttl |-> TRUE, expires |-> t + ex]) @@ st

\* INCRBY: a missing key counts from 0 and gets no time to live
redis_incrby(st, k, n) ==
    IF k \in DOMAIN st THEN [st EXCEPT ![k].value = @ + n]
    ELSE (k :> [value |-> n, has_ttl |-> FALSE, expires |-> 0]) @@ st

\* INCR
redis_incr(st, k) == redis_incrby(st, k, 1)

\* EXPIRE key seconds
redis_expire(st, k, ex, t) ==
    IF k \in DOMAIN st THEN [st EXCEPT ![k].has_ttl = TRUE, ![k].expires = t + ex]
    ELSE st

\* TTL: -2 for a missing key, -1 for a key without time to live
redis_ttl(st, k, t) ==
    IF k \notin DOMAIN st THEN 0 - 2
    ELSE IF ~st[k].has_ttl THEN 0 - 1
    ELSE st[k].expires - t

\* the keys that are left at time t
expire_keys(st, t) ==
    LET live == {k \in DOMAIN st : ~st[k].has_ttl \/ st[k].expires > t}
    IN  [k \in live |-> st[k]]

(* Requests *)

\* the paths the middleware lets through unchecked, and the chat endpoint
SkipPaths == {"/health", "/metrics", "/api/v1/health"}
ChatPath == "/api/v1/chat/"

\* request.state.user as set by the authentication, None without one
Users == { [id |-> "u1", tier |-> "free"], [id |-> "u2", tier |-> "basic"] }

\* request.client.host if request.client else "unknown"
client_host(client) == IF client = None THEN "unknown" ELSE client.host

\* a worker that handles nothing; changed holds the keys the request in hand
\* has written to the store
IdleWorker ==
    [pc |-> "idle", kind |-> "none", user |-> None, client |-> None, path |-> "",
     tokens |-> 0, t |-> 0, w |-> 0, key |-> None, limit |-> 0, window_seconds |-> 0,
     count |-> 0, checks |-> <<>>, outcome |-> "none", detail |-> None, llm |-> FALSE,
     changed |-> {}]

Workers == {1, 2}

(* The MCP orchestrator: app/services/mcp_orchestrator.py, app/mcp/client.py *)

\* MCP_SERVERS: the ids of the configured servers in the order of the dict.
\* The file configures budget_service and names database_service as a
\* server that can be added.
MCP_SERVERS == <<"budget_service", "database_service">>

\* what the subprocess of a server does at startup: "absent" = it cannot be
\* launched, "broken" = it is launched but does not answer, "up" = it
\* answers.  A server that was up and has stopped answering is "exited".
ServerStates == {"absent", "broken", "up"}

\* result.tools of session.list_tools() of a server, with the server_name
\* that MCPClient.list_tools adds to every tool
list_tools(name) ==
    IF name = "budget_service"
    THEN << Tool(<<"a", "b", "c", "c">>, name, QuerySchema) >>
    ELSE << Tool(<<"b", "a">>, name, QuerySchema) >>

\* the key of the cached catalog, "mcp_tools_cache"
cache_key == [prefix |-> "mcp_tools_cache", id |-> "", window |-> "", bucket |-> 0]

\* `ex=300` of the cached catalog
cache_ttl == 300

\* json.dumps / json.loads of a catalog
catalog_dumps(tools) == [json |-> tools]
catalog_loads(text) == text.json

\* a context entered on the exit stack
Ctx(name, what) == [server |-> name, what |-> what]

\* no operation of the orchestrator is running and none has run
IdleOrch ==
    [op |-> "none", pc |-> "idle", i |-> 0, all_tools |-> <<>>, queried |-> {},
     server_name |-> "", metric |-> "none", log |-> <<>>, outcome |-> "none",
     result |-> None]

\* MCPClient after connect() has returned: line 31 has set its session
Client(name) == [name |-> name, session |-> TRUE]

\* the ids under which clients are tracked
client_names(cl) == {cl[i].name : i \in DOMAIN cl}

\* MCPOrchestrator.__init__: no client, an empty exit stack
OrchNew ==
    /\ started = FALSE
    /\ clients = <<>>
    /\ exit_stack = <<>>
    /\ opened = {}
    /\ closed = {}
    /\ orch = IdleOrch

\* the orchestrator as constructed, with no server launched
OrchQuiet ==
    /\ servers = [n \in Range(MCP_SERVERS) |-> "up"]
    /\ OrchNew

\* generate_response_stream and the endpoint generator before their first step
IdleStream ==
    [pc |-> "idle", produced |-> <<>>, collected_tokens |-> <<>>, events |-> <<>>,
     sse |-> <<>>]

\* MCPClient.__init__, lines 10-15: no session; requests counts the requests
\* written to the subprocess, contexts the contexts entered by connect,
\* at_call holds the session flag and the request count the last operation
\* found when it was called
NewClient ==
    [name |-> "budget_service", session |-> FALSE, pc |-> "idle", op |-> "none",
     outcome |-> "none", result |-> None, metric |-> "none", requests |-> 0,
     contexts |-> <<>>, ops |-> 0, at_call |-> [session |-> FALSE, requests |-> 0]]

\* no regenerate_last_response in progress, over the tables t
NoRegen(t) ==
    [conversations |-> t.conversations, messages |-> t.messages, next_id |-> Len(t.messages) + 1,
     pc |-> "idle", user_id |-> "none", conversation_id |-> "none",
     last_msg |-> None, chat_messages |-> <<>>, calls |-> 0]

\* the tables of a database without conversations
EmptyTables == [conversations |-> {}, messages |-> <<>>]

\* no other entry point has been called
EntryQuiet == stream = IdleStream /\ mcp_client = NewClient /\ regen = NoRegen(EmptyTables)

\* get_llm_provider: the adapters
Providers == {"openai", "deepseek", "ollama", "anthropic"}

\* config.py line 21: the default provider
ExtQuiet == EntryQuiet /\ provider = "deepseek"

\* the governor at rest
GovQuiet ==
    /\ now = 0
    /\ ticks = 0
    /\ store = << >>
    /\ redis = "up"
    /\ workers = [s \in Workers |-> IdleWorker]
    /\ nreq = 0
    /\ admitted = << >>

\* generate_response before its first step
TurnInit ==
    /\ pc = "start"
    /\ messages_db = <<>>
    /\ formatted_messages = <<>>
    /\ mcp_tools = <<>>
    /\ message = None
    /\ round = 0
    /\ has_error = FALSE
    /\ llm_calls = 0
    /\ sent = <<>>
    /\ tasks = <<>>
    /\ tool_executions = <<>>
    /\ executed = {}
    /\ batches = <<>>
    /\ emitted = 0
    /\ responses = <<>>
    /\ response = None
    /\ retval = None

Init == TurnInit /\ GovQuiet /\ OrchQuiet /\ ExtQuiet

\* lines 139-163: save the user message, build the history, fetch the catalog
StartTurn ==
    /\ pc = "start"
    /\ messages_db' = Append(messages_db, UserMessage)
    /\ formatted_messages' = intent_prompt(detect_intent(UserMessage.content)) \o <<UserMessage>>
    /\ mcp_tools' \in TurnCatalogs
    /\ pc' = "initial_call"
    /\ UNCHANGED <<message, round, has_error, llm_calls, sent, tasks, tool_executions,
                   executed, batches, emitted, responses, response, retval>>
    /\ UNCHANGED <<gov_vars, orch_vars, ext_vars>>

\* the contents drawn for the k-th answer of the model: a text for a turn
\* without tool calls, a text or None (no content) for a turn with one call,
\* None for a turn with several calls
Contents(k, calls) ==
    CASE calls = <<>>   -> {[text |-> k]}
      [] Len(calls) = 1 -> {[text |-> k], None}
      [] OTHER          -> {None}

\* the ChatCompletion object the provider returns
Completion(k, content, calls) ==
    [id |-> k, choices |-> <<[message |-> [content |-> content, tool_calls |-> calls]]>>]

\* the empty text content_text = "" of the Anthropic mapping
EmptyText == [text |-> 0]

\* AnthropicProvider._map_to_common_format, llm_service.py lines 187-205: the
\* text blocks joined ("" when there is none) and the tool_use blocks as
\* tool calls; the other adapters return the ChatCompletion object as it is
chat_completion(p, r) ==
    IF p = "anthropic"
    THEN [r EXCEPT !.choices[1].message.content = IF @ = None THEN EmptyText ELSE @]
    ELSE r

\* response = await llm_service.chat_completion(...) followed by
\* message = response.choices[0].message: the model answers with any batch
\* of calls
ChatCompletion(next_pc) ==
    /\ llm_calls' = llm_calls + 1
    /\ sent' = formatted_messages
    /\ \E calls \in BatchesUpTo(MaxCalls - emitted) :
       \E content \in Contents(llm_calls + 1, calls) :
          /\ response' = chat_completion(provider,
                                       Completion(llm_calls + 1, content, calls))
          /\ message' = response'.choices[1].message
          /\ emitted' = emitted + Len(calls)
    /\ responses' = Append(responses, response')
    /\ pc' = next_pc

\* lines 166-171
InitialCall ==
    /\ pc = "initial_call"
    /\ ChatCompletion("loop")
    /\ UNCHANGED <<messages_db, formatted_messages, mcp_tools, round, has_error, tasks,
                   tool_executions, executed, batches, retval>>
    /\ UNCHANGED <<gov_vars, orch_vars, ext_vars>>

\* the tools that the tracked servers which answer offer now
RECURSIVE tools_now(_, _)
tools_now(cl, sv) ==
    IF cl = <<>> THEN <<>>
    ELSE (IF sv[Head(cl).name] = "up" THEN list_tools(Head(cl).name) ELSE <<>>)
         \o tools_now(Tail(cl), sv)

\* a variant that resolves every call against the tools offered at the time
\* of the call
catalog_refetched(snapshot, cl, sv) == tools_now(cl, sv)

\* line 183: `self._process_tool_call(tc, conversation.id, mcp_tools)`: the
\* catalog passed to every call of every round is the list fetched at line
\* 162, whatever the servers offer by then
catalog_for_call(snapshot, cl, sv) == snapshot

\* the capability invocations of a batch whose coroutines have started:
\* lines 85-89 await execute / call_mcp_tool once, the first attempt
invocations(b, ts) ==
    {[batch |-> b, idx |-> i, kind |-> ts[i].kind, name |-> ts[i].resolved_name,
      arguments |-> ts[i].tool_args, attempt |-> 1] :
        i \in {j \in DOMAIN ts : ts[j].pc = "exec"}}

\* lines 175-186: the head of an iteration up to the await on gather.  gather
\* wraps the coroutines in tasks, and the event loop runs each of them, in
\* order, up to its first await before any awaited result can arrive: every
\* call of the batch is parsed, resolved and validated here.
LoopTop ==
    /\ pc = "loop"
    /\ IF loop_continues(round) /\ has_tool_calls(message)
       THEN LET calls == message.tool_calls
                ts == [i \in DOMAIN calls |->
                          process_start(calls[i], catalog_for_call(mcp_tools, clients, servers))]
            IN  /\ formatted_messages' = Append(formatted_messages, message_dump(provider, message))
                /\ tasks' = ts
                /\ batches' = Append(batches, calls)
                /\ executed' = executed \cup invocations(Len(batches) + 1, ts)
                /\ pc' = "gather"
       ELSE /\ pc' = "save"
            /\ UNCHANGED <<formatted_messages, tasks, batches, executed>>
    /\ UNCHANGED <<messages_db, mcp_tools, message, round, has_error, llm_calls, sent,
                   tool_executions, emitted, responses, response, retval>>
    /\ UNCHANGED <<gov_vars, orch_vars, ext_vars>>

\* the awaited capability of call i returns, raises or times out
ProcessExecDone(i) ==
    /\ i \in DOMAIN tasks
    /\ tasks[i].pc = "exec"
    /\ \E outcome \in ExecOutcomes(tasks[i].kind) :
          tasks' = [tasks EXCEPT ![i] = exec_done(tasks[i], outcome)]
    /\ UNCHANGED <<pc, messages_db, formatted_messages, mcp_tools, message, round,
                   has_error, llm_calls, sent, tool_executions, executed, batches, emitted, responses, response, retval>>
    /\ UNCHANGED <<gov_vars, orch_vars, ext_vars>>

\* lines 104-129: the row of call i is committed and the coroutine returns
ProcessPersist(i) ==
    /\ i \in DOMAIN tasks
    /\ tasks[i].pc = "persist"
    /\ tool_executions' = Append(tool_executions, execution_row(Len(batches), i, tasks[i]))
    /\ tasks' = [tasks EXCEPT ![i] = [tasks[i] EXCEPT !.pc = "done"] @@
                                     [finished |-> Len(tool_executions) + 1]]
    /\ UNCHANGED <<pc, messages_db, formatted_messages, mcp_tools, message, round,
                   has_error, llm_calls, sent, executed, batches, emitted, responses, response, retval>>
    /\ UNCHANGED <<gov_vars, orch_vars, ext_vars>>

\* gather re-raises the first exception of a coroutine: generate_response
\* raises to its caller, the other coroutines keep running
GatherRaise ==
    /\ pc = "gather"
    /\ \E i \in DOMAIN tasks : tasks[i].pc = "raised"
    /\ pc' = "raised"
    /\ UNCHANGED <<messages_db, formatted_messages, mcp_tools, message, round, has_error,
                   llm_calls, sent, tasks, tool_executions, executed, batches, emitted, responses, response, retval>>
    /\ UNCHANGED <<gov_vars, orch_vars, ext_vars>>

\* a variant that resumes as soon as one coroutine has returned
gather_first_completed(ts) == \E i \in DOMAIN ts : ts[i].pc = "done"

\* line 186: `await asyncio.gather(*tool_tasks)` resumes with the results
\* when every coroutine has returned
gather_returns(ts) == \A i \in DOMAIN ts : ts[i].pc = "done"

\* a variant that returns the turn in hand when no call of the batch failed
after_fold_done_on_success(err) == IF err THEN "correction_call" ELSE "save"

\* lines 205-206: after the fold the model is invoked again, whether or not
\* a call failed
after_fold(err) == "correction_call"

\* lines 186-203: gather returns once every coroutine has returned
FoldResults ==
    /\ pc = "gather"
    /\ gather_returns(tasks)
    /\ LET tool_results == gather(batches[Len(batches)], tasks)
       IN  /\ formatted_messages' = fold(formatted_messages, tool_results)
           /\ has_error' = batch_has_error(tool_results)
    /\ tasks' = <<>>
    /\ pc' = after_fold(has_error')
    /\ UNCHANGED <<messages_db, mcp_tools, message, round, llm_calls, sent,
                   tool_executions, executed, batches, emitted, responses, response, retval>>
    /\ UNCHANGED <<gov_vars, orch_vars, ext_vars>>

\* lines 205-210: call the LLM again, then break or go on with the loop
CorrectionCall ==
    /\ pc = "correction_call"
    /\ ChatCompletion(IF break_after_batch(has_error) THEN "save" ELSE "loop")
    /\ round' = round + 1
    /\ UNCHANGED <<messages_db, formatted_messages, mcp_tools, has_error, tasks,
                   tool_executions, executed, batches, retval>>
    /\ UNCHANGED <<gov_vars, orch_vars, ext_vars>>

\* a variant that persists the first tool call only
assistant_msg_first_call_only(m) ==
    [role |-> "assistant",
     content |-> IF m.content = None THEN "" ELSE m.content,
     tool_calls |-> IF m.tool_calls # <<>> THEN <<Head(m.tool_calls)>> ELSE None]

\* lines 214-219: the Message row of the assistant turn; content is
\* `message.content or ""`, tool_calls is the list of dumped calls, or None
\* when the turn has none
assistant_msg(m) ==
    [role |-> "assistant",
     content |-> IF m.content = None THEN "" ELSE m.content,
     tool_calls |-> IF m.tool_calls # <<>> THEN m.tool_calls ELSE None]

\* response.model_dump()
response_dump(r) == r

\* MockResponse.model_dump(), llm_service.py lines 202-203
mock_response_dump(r) ==
    [choices |-> <<[message |-> [role |-> "assistant",
                                 content |-> r.choices[1].message.content]]>>]

\* line 218, `tc.model_dump()`: the tool calls of the Anthropic mapping are
\* MockToolCall objects, which have no model_dump
tool_calls_dump_raises(p, m) == p = "anthropic" /\ m.tool_calls # <<>>

\* lines 212-223: persist the assistant message and return the response
SaveAssistant ==
    /\ pc = "save"
    /\ IF tool_calls_dump_raises(provider, message)
       THEN /\ pc' = "raised"
            /\ UNCHANGED <<messages_db, retval>>
       ELSE /\ messages_db' = Append(messages_db, assistant_msg(message))
            /\ retval' = IF provider = "anthropic" THEN mock_response_dump(response)
                         ELSE response_dump(response)
            /\ pc' = "returned"
    /\ UNCHANGED <<formatted_messages, mcp_tools, message, round, has_error, llm_calls,
                   sent, tasks, tool_executions, executed, batches, emitted, responses,
                   response>>
    /\ UNCHANGED <<gov_vars, orch_vars, ext_vars>>

Next ==
    \/ StartTurn
    \/ InitialCall
    \/ LoopTop
    \/ \E i \in 1..MaxCalls : ProcessExecDone(i)
    \/ \E i \in 1..MaxCalls : ProcessPersist(i)
    \/ GatherRaise
    \/ FoldResults
    \/ CorrectionCall
    \/ SaveAssistant

Spec == Init /\ [][Next]_vars

\* a variant in which a failed completion ends the turn without an error
upstream_failure_swallowed(at) == "returned"

\* lines 166 and 206: chat_completion is awaited outside any try block, so an
\* exception of the provider leaves generate_response at that line
upstream_failure(at) == "raised"

\* the provider raises instead of answering the initial or a correction call
ChatCompletionRaises ==
    /\ pc \in {"initial_call", "correction_call"}
    /\ llm_calls' = llm_calls + 1
    /\ sent' = formatted_messages
    /\ pc' = upstream_failure(pc)
    /\ UNCHANGED <<messages_db, formatted_messages, mcp_tools, message, round, has_error,
                   tasks, tool_executions, executed, batches, emitted, responses,
                   response, retval>>
    /\ UNCHANGED <<gov_vars, orch_vars, ext_vars>>

\* the turn with a provider that can fail
NextUpstream == Next \/ ChatCompletionRaises

\* the turn under each of the adapters
InitProviders == TurnInit /\ GovQuiet /\ OrchQuiet /\ EntryQuiet /\ provider \in Providers

SpecProviders == InitProviders /\ [][Next]_vars

SpecUpstream == Init /\ [][NextUpstream]_vars

----------------------------------------------------------------------------
(* The single-call specification: one model turn holding one tool call,    *)
(* with the requested name, the payload and the remote catalog drawn from  *)
(* wider sets; it runs the batch of that call up to the fold.              *)

\* every name of 1 .. n characters
NamesUpTo(n) == UNION {[1..k -> Range(Alphabet)] : k \in 1..n}

InitCall ==
    /\ pc = "loop"
    /\ messages_db = <<UserMessage>>
    /\ formatted_messages = <<UserMessage>>
    /\ mcp_tools \in McpCatalogs
    /\ \E n \in NamesUpTo(MaxNameLen), raw \in RawPayloads :
          response = Completion(1, [text |-> 1],
                                <<[id |-> "call_1", name |-> n, arguments |-> raw]>>)
    /\ message = response.choices[1].message
    /\ responses = <<response>>
    /\ retval = None
    /\ round = 0
    /\ has_error = FALSE
    /\ llm_calls = 1
    /\ sent = <<UserMessage>>
    /\ tasks = <<>>
    /\ tool_executions = <<>>
    /\ executed = {}
    /\ batches = <<>>
    /\ emitted = 1
    /\ GovQuiet
    /\ OrchQuiet
    /\ ExtQuiet

NextCall ==
    \/ LoopTop
    \/ \E i \in 1..MaxCalls : ProcessExecDone(i)
    \/ \E i \in 1..MaxCalls : ProcessPersist(i)
    \/ GatherRaise
    \/ FoldResults

SpecCall == InitCall /\ [][NextCall]_vars

----------------------------------------------------------------------------
(* rate_limit_middleware, RateLimiter.check_rate_limit, _check_limit and   *)
(* check_token_usage, run by the workers                                   *)

\* number of requests handled in one run
MaxRequests == 12
\* number of anonymous requests handled in one run
MaxAnonRequests == 7
\* number of quota calls handled in one run
MaxTokenCalls == 4
\* number of clock advances in one run
MaxTicks == 2

\* the run starts at 23:58:59 of a day: the next second starts a new minute,
\* a minute later a new hour and a new day start, and the keys set in the
\* first second of the run have expired
StartTime == 86400 - 61

\* the instants at which requests arrive and store operations run: the k-th
\* advance of the clock is by one second (k odd) or by 59 seconds (k even)
Advance(k) == IF k % 2 = 1 THEN 1 ELSE 59

\* the amounts passed to check_token_usage
TokenAmounts == {50000, 50001, 100000}

\* the requests that arrive: authenticated or not, to the chat endpoint or to
\* a path that is not limited
HttpRequests ==
    {[user |-> u, client |-> [host |-> "ip1"], path |-> ChatPath] : u \in Users}
    \cup {[user |-> None, client |-> c, path |-> ChatPath] :
             c \in {[host |-> "ip1"], [host |-> "ip2"], None}}
    \cup {[user |-> None, client |-> [host |-> "ip1"], path |-> "/health"]}

\* the worker after the middleware (or the quota call) has returned or
\* raised: what it has left is the request and its outcome
finished(wk, outcome, detail) ==
    [IdleWorker EXCEPT !.pc = "done", !.kind = wk.kind, !.user = wk.user,
                       !.client = wk.client, !.path = wk.path, !.tokens = wk.tokens,
                       !.count = wk.count, !.checks = wk.checks, !.llm = wk.llm,
                       !.key = wk.key, !.limit = wk.limit, !.changed = wk.changed,
                       !.outcome = outcome, !.detail = detail]

\* rate_info of check_rate_limit without a store
NoStoreInfo == [allowed |-> TRUE]

\* check_rate_limit turns to window w: lines 70-91
begin_window(wk, w) ==
    [wk EXCEPT !.pc = "get", !.w = w,
               !.key = rate_key(wk.user.id, w, wk.t),
               !.limit = window_limit(limits_for(wk.user.tier), w),
               !.window_seconds = Windows[w].window_seconds]

\* _check_limit has returned a count for the window the worker is at: the
\* next window is checked, and after the last one (or after the one window of
\* the IP path, w = 0) the middleware calls call_next
window_passed(wk) ==
    IF wk.w \in {1, 2} THEN begin_window(wk, wk.w + 1)
    ELSE [wk EXCEPT !.pc = "call_next", !.outcome = "forwarded"]

\* rate_limit_middleware up to its first await, for the request inp
middleware_start(inp, t, conn) ==
    LET base == [IdleWorker EXCEPT !.kind = "http", !.user = inp.user,
                                   !.client = inp.client, !.path = inp.path,
                                   !.t = t, !.outcome = "pending"]
    IN  IF inp.path \in SkipPaths
        THEN [base EXCEPT !.pc = "call_next", !.outcome = "forwarded"]
        ELSE IF inp.user # None
        THEN IF conn = "none"
             THEN \* `if not redis_manager.redis: return {"allowed": True}`
                  [base EXCEPT !.pc = "call_next", !.outcome = "forwarded",
                               !.detail = NoStoreInfo]
             ELSE begin_window(base, 1)
        ELSE IF conn = "none"
        THEN \* _check_limit evaluates redis.get on None: AttributeError, which
             \* `except HTTPException` does not catch
             finished(base, "failed", [exception |-> "AttributeError"])
        ELSE [base EXCEPT !.pc = "get", !.w = 0,
                          !.key = ip_key(client_host(inp.client), t),
                          !.limit = ip_limit, !.window_seconds = ip_window_seconds]

\* a variant of the comparison that admits one call more
over_limit_off_by_one(count, limit) == count > limit

\* line 127: `if count >= limit`
over_limit(count, limit) == count >= limit

\* _check_limit after `count = await redis.get(key)`: lines 120-147
\* checks lists the windows whose counter the request has had compared
after_get(wk, c) ==
    LET seen == [wk EXCEPT !.checks = Append(@, wk.key.window)]
    IN  IF ~c.found THEN [seen EXCEPT !.pc = "set", !.count = 0]
        ELSE IF over_limit(c.value, wk.limit) THEN [seen EXCEPT !.pc = "ttl", !.count = c.value]
        ELSE [seen EXCEPT !.pc = "incr", !.count = c.value]

\* the 429 response of the middleware for the HTTPException of _check_limit
rejection(wk, ttl) ==
    [status_code |-> 429,
     content |-> IF wk.user # None
                 THEN [error |-> "Rate limit exceeded", limit |-> wk.limit,
                       window_seconds |-> wk.window_seconds, retry_after |-> ttl]
                 ELSE [error |-> "Rate limit exceeded. Please authenticate for higher limits."],
     retry_after |-> ttl]

\* the log of admissions with an admission on key k at time t (or, for a
\* quota key, a charge of the amount t)
note_admitted(a, k, t) ==
    IF k \in DOMAIN a THEN [a EXCEPT ![k] = Append(@, t)] ELSE (k :> <<t>>) @@ a

\* a request arrives at worker s
Arrive(s, inputs, max) ==
    /\ workers[s].pc \in {"idle", "done"}
    /\ nreq < max
    /\ nreq' = nreq + 1
    /\ \E inp \in inputs :
          workers' = [workers EXCEPT ![s] = middleware_start(inp, now, redis)]
    /\ UNCHANGED <<now, ticks, store, redis, admitted>>
    /\ UNCHANGED <<turn_vars, orch_vars, ext_vars>>

\* `count = await redis.get(key)` and the branch taken on the count
Get(s) ==
    /\ workers[s].pc = "get"
    /\ redis = "up"
    /\ workers' = [workers EXCEPT ![s] = after_get(workers[s], redis_get(store, workers[s].key))]
    /\ UNCHANGED <<now, ticks, store, redis, nreq, admitted>>
    /\ UNCHANGED <<turn_vars, orch_vars, ext_vars>>

\* `await redis.set(key, 1, ex=window_seconds); return 1`
Set(s) ==
    /\ workers[s].pc = "set"
    /\ redis = "up"
    /\ store' = redis_set(store, workers[s].key, 1, workers[s].window_seconds, now)
    /\ admitted' = note_admitted(admitted, workers[s].key, now)
    /\ workers' = [workers EXCEPT ![s] =
                      window_passed([workers[s] EXCEPT !.count = 1,
                                                       !.changed = @ \cup {workers[s].key}])]
    /\ UNCHANGED <<now, ticks, redis, nreq>>
    /\ UNCHANGED <<turn_vars, orch_vars, ext_vars>>

\* `new_count = await redis.incr(key); return new_count`
Incr(s) ==
    /\ workers[s].pc = "incr"
    /\ redis = "up"
    /\ store' = redis_incr(store, workers[s].key)
    /\ admitted' = note_admitted(admitted, workers[s].key, now)
    /\ workers' = [workers EXCEPT ![s] =
                      window_passed([workers[s] EXCEPT !.count = store'[workers[s].key].value,
                                                       !.changed = @ \cup {workers[s].key}])]
    /\ UNCHANGED <<now, ticks, redis, nreq>>
    /\ UNCHANGED <<turn_vars, orch_vars, ext_vars>>

\* `ttl = await redis.ttl(key)`, the HTTPException and the 429 response
Ttl(s) ==
    /\ workers[s].pc = "ttl"
    /\ redis = "up"
    /\ workers' = [workers EXCEPT ![s] =
                      finished(workers[s], "rejected",
                               rejection(workers[s], redis_ttl(store, workers[s].key, now)))]
    /\ UNCHANGED <<now, ticks, store, redis, nreq, admitted>>
    /\ UNCHANGED <<turn_vars, orch_vars, ext_vars>>

\* a store operation raises (the store cannot be reached): neither
\* _check_limit nor check_rate_limit nor the middleware catches it, and
\* check_token_usage does not either
OpFails(s) ==
    /\ workers[s].pc \in {"get", "set", "incr", "ttl", "tget", "tincr", "texpire",
                           "rincr", "rexpire"}
    /\ redis = "down"
    /\ workers' = [workers EXCEPT ![s] =
                      finished(workers[s], "failed", [exception |-> "ConnectionError"])]
    /\ UNCHANGED <<now, ticks, store, redis, nreq, admitted>>
    /\ UNCHANGED <<turn_vars, orch_vars, ext_vars>>

\* the chat endpoint: it passes the messages to generate_response, which
\* invokes the LLM; it makes no call to the governor (check_token_usage has
\* no caller in the application)
chat_v1(wk) == [wk EXCEPT !.llm = TRUE]

\* `await call_next(request)`: the endpoint of the path runs
Handler(s) ==
    /\ workers[s].pc = "call_next"
    /\ workers' = [workers EXCEPT ![s] =
                      finished(IF workers[s].path = ChatPath THEN chat_v1(workers[s])
                               ELSE workers[s],
                               "forwarded", workers[s].detail)]
    /\ UNCHANGED <<now, ticks, store, redis, nreq, admitted>>
    /\ UNCHANGED <<turn_vars, orch_vars, ext_vars>>

\* check_token_usage up to its first await: lines 162-172
token_start(user, n, t, conn) ==
    LET base == [IdleWorker EXCEPT !.kind = "tokens", !.user = user, !.tokens = n,
                                   !.t = t, !.outcome = "pending"]
    IN  IF conn = "none"
        THEN finished(base, "admitted", None)
        ELSE [base EXCEPT !.pc = "tget", !.key = token_key(user.id, t),
                          !.limit = limits_for(user.tier).tokens_per_day]

\* a variant of the comparison that looks at the consumed amount only
exceeds_quota_ignoring_request(current_usage, tokens_requested, limit) ==
    current_usage > limit

\* line 175: `if current_usage + tokens_requested > limits["tokens_per_day"]`
exceeds_quota(current_usage, tokens_requested, limit) ==
    current_usage + tokens_requested > limit

\* lines 172-184, given the answer c of `await redis.get(day_key)`;
\* current_usage is `int(current_usage) if current_usage else 0`
after_token_get(wk, c) ==
    LET current_usage == IF c.found THEN c.value ELSE 0
    IN  IF exceeds_quota(current_usage, wk.tokens, wk.limit)
        THEN finished([wk EXCEPT !.count = current_usage], "rejected",
                      [error |-> "Daily token limit exceeded", limit |-> wk.limit,
                       used |-> current_usage, requested |-> wk.tokens])
        ELSE [wk EXCEPT !.pc = "tincr", !.count = current_usage]

\* check_token_usage(user, tier, n) is called at worker s
TokenStart(s, users) ==
    /\ workers[s].pc \in {"idle", "done"}
    /\ nreq < MaxTokenCalls
    /\ nreq' = nreq + 1
    /\ \E u \in users, n \in TokenAmounts :
          workers' = [workers EXCEPT ![s] = token_start(u, n, now, redis)]
    /\ UNCHANGED <<now, ticks, store, redis, admitted>>
    /\ UNCHANGED <<turn_vars, orch_vars, ext_vars>>

\* `current_usage = await redis.get(day_key)` and the comparison
TokenGet(s) ==
    /\ workers[s].pc = "tget"
    /\ redis = "up"
    /\ workers' = [workers EXCEPT ![s] =
                      after_token_get(workers[s], redis_get(store, workers[s].key))]
    /\ UNCHANGED <<now, ticks, store, redis, nreq, admitted>>
    /\ UNCHANGED <<turn_vars, orch_vars, ext_vars>>

\* `await redis.incrby(day_key, tokens_requested)`
TokenIncr(s) ==
    /\ workers[s].pc = "tincr"
    /\ redis = "up"
    /\ store' = redis_incrby(store, workers[s].key, workers[s].tokens)
    /\ admitted' = note_admitted(admitted, workers[s].key, workers[s].tokens)
    /\ workers' = [workers EXCEPT ![s] = [workers[s] EXCEPT !.pc = "texpire",
                                                          !.changed = @ \cup {workers[s].key}]]
    /\ UNCHANGED <<now, ticks, redis, nreq>>
    /\ UNCHANGED <<turn_vars, orch_vars, ext_vars>>

\* `await redis.expire(day_key, 86400); return True`
TokenExpire(s) ==
    /\ workers[s].pc = "texpire"
    /\ redis = "up"
    /\ store' = redis_expire(store, workers[s].key, Windows[3].window_seconds, now)
    /\ workers' = [workers EXCEPT ![s] = finished(workers[s], "admitted", None)]
    /\ UNCHANGED <<now, ticks, redis, nreq, admitted>>
    /\ UNCHANGED <<turn_vars, orch_vars, ext_vars>>

\* record_token_usage up to its first await: lines 198-204
record_start(user, n, t, conn) ==
    LET base == [IdleWorker EXCEPT !.kind = "record", !.user = user, !.tokens = n,
                                   !.t = t, !.outcome = "pending"]
    IN  IF conn = "none"
        THEN finished(base, "returned", None)
        ELSE [base EXCEPT !.pc = "rincr", !.key = token_key(user.id, t)]

\* record_token_usage(user_id, n) is called at worker s
RecordStart(s, users) ==
    /\ workers[s].pc \in {"idle", "done"}
    /\ nreq < MaxTokenCalls
    /\ nreq' = nreq + 1
    /\ \E u \in users, n \in TokenAmounts :
          workers' = [workers EXCEPT ![s] = record_start(u, n, now, redis)]
    /\ UNCHANGED <<now, ticks, store, redis, admitted>>
    /\ UNCHANGED <<turn_vars, orch_vars, ext_vars>>

\* line 204: `await redis_manager.redis.incrby(day_key, tokens_used)`
RecordIncr(s) ==
    /\ workers[s].pc = "rincr"
    /\ redis = "up"
    /\ store' = redis_incrby(store, workers[s].key, workers[s].tokens)
    /\ workers' = [workers EXCEPT ![s] = [workers[s] EXCEPT !.pc = "rexpire",
                                                          !.changed = @ \cup {workers[s].key}]]
    /\ UNCHANGED <<now, ticks, redis, nreq, admitted>>
    /\ UNCHANGED <<turn_vars, orch_vars, ext_vars>>

\* line 205: `await redis_manager.redis.expire(day_key, 86400)`
RecordExpire(s) ==
    /\ workers[s].pc = "rexpire"
    /\ redis = "up"
    /\ store' = redis_expire(store, workers[s].key, Windows[3].window_seconds, now)
    /\ workers' = [workers EXCEPT ![s] = finished(workers[s], "returned", None)]
    /\ UNCHANGED <<now, ticks, redis, nreq, admitted>>
    /\ UNCHANGED <<turn_vars, orch_vars, ext_vars>>

\* time passes; the store removes the keys whose time to live has run out.
\* The clock has the resolution of a second and the store answers within
\* the second: the clock does not advance while a worker is inside the
\* checks of the governor (it may while the endpoint runs).
Tick ==
    /\ ticks < MaxTicks
    /\ \A s \in Workers : workers[s].pc \in {"idle", "done", "call_next"}
    /\ ticks' = ticks + 1
    /\ now' = now + Advance(ticks')
    /\ store' = expire_keys(store, now')
    /\ UNCHANGED <<redis, workers, nreq, admitted>>
    /\ UNCHANGED <<turn_vars, orch_vars, ext_vars>>

(* Specifications of the governor *)

\* the governor with an empty store at StartTime; conn = the connection
GovInit(conns) ==
    /\ TurnInit
    /\ now = StartTime
    /\ ticks = 0
    /\ store = << >>
    /\ redis \in conns
    /\ workers = [s \in Workers |-> IdleWorker]
    /\ nreq = 0
    /\ admitted = << >>
    /\ OrchQuiet
    /\ ExtQuiet

\* the requests of one authenticated caller, and those of anonymous callers
UserRequests == {r \in HttpRequests : r.user # None /\ r.user.id = "u1"}
AnonRequests == {r \in HttpRequests : r.user = None /\ r.client # None /\ r.path = ChatPath}

\* the steps of _check_limit and of the middleware at worker s
LimitStep(s) ==
    \/ Get(s)
    \/ Set(s)
    \/ Incr(s)
    \/ Ttl(s)
    \/ Handler(s)

\* requests handled one after another by one worker
NextRate ==
    \/ Arrive(1, UserRequests, MaxRequests)
    \/ LimitStep(1)
    \/ Tick

SpecRate == GovInit({"up"}) /\ [][NextRate]_vars

\* requests of anonymous callers handled one after another by one worker
NextAnon ==
    \/ Arrive(1, AnonRequests, MaxAnonRequests)
    \/ LimitStep(1)
    \/ Tick

SpecAnon == GovInit({"up"}) /\ [][NextAnon]_vars

\* requests of one authenticated caller handled concurrently by two workers
NextRace ==
    \/ \E s \in Workers : Arrive(s, UserRequests, MaxRequests)
    \/ \E s \in Workers : LimitStep(s)

SpecRace == GovInit({"up"}) /\ [][NextRace]_vars

\* quota calls handled concurrently by two workers
NextQuota ==
    \/ \E s \in Workers : TokenStart(s, {u \in Users : u.id = "u1"})
    \/ \E s \in Workers : TokenGet(s)
    \/ \E s \in Workers : TokenIncr(s)
    \/ \E s \in Workers : TokenExpire(s)
    \/ Tick

SpecQuota == GovInit({"up"}) /\ [][NextQuota]_vars

\* quota calls and recordings of actual usage, handled concurrently by two
\* workers
NextLedger ==
    \/ \E s \in Workers : TokenStart(s, {u \in Users : u.id = "u1"})
    \/ \E s \in Workers : TokenGet(s)
    \/ \E s \in Workers : TokenIncr(s)
    \/ \E s \in Workers : TokenExpire(s)
    \/ \E s \in Workers : RecordStart(s, {u \in Users : u.id = "u1"})
    \/ \E s \in Workers : RecordIncr(s)
    \/ \E s \in Workers : RecordExpire(s)
    \/ Tick

SpecLedger == GovInit({"up"}) /\ [][NextLedger]_vars

\* requests and quota calls while the store is unavailable: no connection
\* object, or a client whose operations fail
NextOutage ==
    \/ Arrive(1, HttpRequests, MaxAnonRequests)
    \/ TokenStart(1, Users)
    \/ OpFails(1)
    \/ Handler(1)
    \/ Tick

SpecOutage == GovInit({"none", "down"}) /\ [][NextOutage]_vars

\* number of requests handled in one run that starts late in the hour
MaxLateRequests == 4

\* the requests the caller u1 has been admitted for earlier in the hour and
\* earlier in the day of StartTime, in minutes that are over
EarlierCounts == { [hour |-> 99, day |-> 99], [hour |-> 100, day |-> 100],
                   [hour |-> 40, day |-> 999], [hour |-> 40, day |-> 1000] }

\* the store after those requests: the hour and the day counter were set
\* with `redis.set(key, 1, ex=window_seconds)` by the first request of the
\* hour, at 23:00:00, and incremented since; the minute counters of those
\* requests have expired
store_after(earlier) ==
    LET first == StartTime - (StartTime % Windows[2].window_seconds)
        hour_key == rate_key("u1", 2, StartTime)
        day_key == rate_key("u1", 3, StartTime)
    IN  (hour_key :> [value |-> earlier.hour, has_ttl |-> TRUE,
                      expires |-> first + Windows[2].window_seconds])
        @@ (day_key :> [value |-> earlier.day, has_ttl |-> TRUE,
                        expires |-> first + Windows[3].window_seconds])

\* the governor at StartTime of a day on which u1 has been active
LateInit ==
    /\ TurnInit
    /\ now = StartTime
    /\ ticks = 0
    /\ \E earlier \in EarlierCounts : store = store_after(earlier)
    /\ redis = "up"
    /\ workers = [s \in Workers |-> IdleWorker]
    /\ nreq = 0
    /\ admitted = << >>
    /\ OrchQuiet
    /\ ExtQuiet

NextLate ==
    \/ Arrive(1, UserRequests, MaxLateRequests)
    \/ LimitStep(1)
    \/ Tick

SpecLate == LateInit /\ [][NextLate]_vars

----------------------------------------------------------------------------
(* MCPOrchestrator: initialize, shutdown, list_all_tools, check_health and *)
(* call_mcp_tool, one operation at a time; every await is one step.        *)

\* number of operations called on the orchestrator after construction,
\* besides initialize
MaxOps == 4

\* the operation has returned v / has raised e
returned(o, v) == [o EXCEPT !.pc = "idle", !.outcome = "returned", !.result = v]
raised(o, e) == [o EXCEPT !.pc = "idle", !.outcome = "raised", !.result = [exception |-> e]]

\* initialize, lines 17-28: the loop turns to the next configured server, or
\* ends
after_connect(o) ==
    IF o.i < Len(MCP_SERVERS) THEN [o EXCEPT !.pc = "stdio", !.i = o.i + 1]
    ELSE returned(o, None)

\* the lines initialize logs: "Successfully connected to MCP server" (ok)
\* and "Failed to connect to MCP server"
logged(o, ok) == [o EXCEPT !.log = Append(@, [server |-> MCP_SERVERS[o.i], ok |-> ok])]

\* a variant in which the exception of a connect leaves initialize
connect_failed_aborts(o) == raised(logged(o, FALSE), "Exception")

\* lines 27-28: `except Exception`: the failure is logged and the loop goes on
connect_failed(o) == after_connect(logged(o, FALSE))

\* lifespan calls `await mcp_orchestrator.initialize()` once, at startup
Initialize ==
    /\ orch.pc = "idle"
    /\ ~started
    /\ started' = TRUE
    /\ orch' = after_connect([IdleOrch EXCEPT !.op = "initialize"])
    /\ UNCHANGED <<servers, clients, exit_stack, opened, closed>>
    /\ UNCHANGED <<turn_vars, gov_vars, ext_vars>>

\* connect, line 27: enter stdio_client(server_params), which launches the
\* subprocess, on the exit stack
ConnectStdio ==
    /\ orch.pc = "stdio"
    /\ LET name == MCP_SERVERS[orch.i]
       IN  IF servers[name] = "absent"
           THEN /\ orch' = connect_failed(orch)
                /\ UNCHANGED <<exit_stack, opened>>
           ELSE /\ exit_stack' = Append(exit_stack, Ctx(name, "stdio_client"))
                /\ opened' = opened \cup {Ctx(name, "stdio_client")}
                /\ orch' = [orch EXCEPT !.pc = "session"]
    /\ UNCHANGED <<servers, started, clients, closed>>
    /\ UNCHANGED <<turn_vars, gov_vars, ext_vars>>

\* connect, line 28: enter ClientSession(read, write) on the exit stack
ConnectSession ==
    /\ orch.pc = "session"
    /\ LET name == MCP_SERVERS[orch.i]
       IN  /\ exit_stack' = Append(exit_stack, Ctx(name, "ClientSession"))
           /\ opened' = opened \cup {Ctx(name, "ClientSession")}
    /\ orch' = [orch EXCEPT !.pc = "handshake"]
    /\ UNCHANGED <<servers, started, clients, closed>>
    /\ UNCHANGED <<turn_vars, gov_vars, ext_vars>>

\* connect, lines 30-32, and initialize, lines 25-28: `await
\* session.initialize()`; when it returns the client is tracked under its id
ConnectHandshake ==
    /\ orch.pc = "handshake"
    /\ LET name == MCP_SERVERS[orch.i]
       IN  IF servers[name] = "up"
           THEN /\ clients' = Append(clients, Client(name))
                /\ orch' = after_connect(logged(orch, TRUE))
           ELSE /\ orch' = connect_failed(orch)
                /\ UNCHANGED clients
    /\ UNCHANGED <<servers, started, exit_stack, opened, closed>>
    /\ UNCHANGED <<turn_vars, gov_vars, ext_vars>>

\* a variant that closes the contexts of the tracked clients only
contexts_of_clients(stack, cl) == {c \in Range(stack) : c.server \in client_names(cl)}

\* `await self._exit_stack.aclose()`: every context on the stack is exited
contexts_to_close(stack, cl) == Range(stack)

\* shutdown, lines 30-33
Shutdown ==
    /\ orch.pc = "idle"
    /\ nreq < MaxOps
    /\ nreq' = nreq + 1
    /\ closed' = closed \cup contexts_to_close(exit_stack, clients)
    /\ exit_stack' = <<>>
    /\ clients' = <<>>
    /\ orch' = returned([IdleOrch EXCEPT !.op = "shutdown"], None)
    /\ UNCHANGED <<servers, started, opened>>
    /\ UNCHANGED <<now, ticks, store, redis, workers, admitted>>
    /\ UNCHANGED <<turn_vars, ext_vars>>

\* list_all_tools, lines 44-52: the loop turns to the next client; after the
\* last one the catalog is cached (if there is a store and the catalog is
\* not empty) and returned
list_next(o, cl, conn) ==
    IF o.i < Len(cl) THEN [o EXCEPT !.pc = "list_tools", !.i = o.i + 1]
    ELSE IF conn # "none" /\ o.all_tools # <<>> THEN [o EXCEPT !.pc = "cache_set"]
    ELSE returned(o, o.all_tools)

\* list_all_tools is called: line 37
ListAllTools ==
    /\ orch.pc = "idle"
    /\ nreq < MaxOps
    /\ nreq' = nreq + 1
    /\ LET o == [IdleOrch EXCEPT !.op = "list_all_tools"]
       IN  orch' = IF redis # "none" THEN [o EXCEPT !.pc = "cache_get"]
                   ELSE list_next(o, clients, redis)
    /\ UNCHANGED <<servers, started, clients, exit_stack, opened, closed>>
    /\ UNCHANGED <<now, ticks, store, redis, workers, admitted>>
    /\ UNCHANGED <<turn_vars, ext_vars>>

\* a variant that ignores the cached catalog
cache_hit_never(c) == FALSE

\* line 39: `if cached_tools:`
cache_hit(c) == c.found

\* lines 38-41: `cached_tools = await redis.get("mcp_tools_cache")`
CacheGet ==
    /\ orch.pc = "cache_get"
    /\ redis = "up"
    /\ LET c == redis_get(store, cache_key)
       IN  orch' = IF cache_hit(c) THEN returned(orch, catalog_loads(c.value))
                   ELSE list_next(orch, clients, redis)
    /\ UNCHANGED <<servers, started, clients, exit_stack, opened, closed>>
    /\ UNCHANGED <<turn_vars, gov_vars, ext_vars>>

\* line 45 and MCPClient.list_tools: `result = await
\* self.session.list_tools()`; an exception of the query is caught neither
\* by MCPClient.list_tools nor by list_all_tools
ListTools ==
    /\ orch.pc = "list_tools"
    /\ LET client == clients[orch.i]
           asked == [orch EXCEPT !.queried = @ \cup {client.name}]
       IN  orch' = IF ~client.session THEN list_next(orch, clients, redis)
                   ELSE IF servers[client.name] = "up"
                   THEN list_next([asked EXCEPT !.all_tools = @ \o list_tools(client.name)],
                                  clients, redis)
                   ELSE raised(asked, "Exception")
    /\ UNCHANGED <<servers, started, clients, exit_stack, opened, closed>>
    /\ UNCHANGED <<turn_vars, gov_vars, ext_vars>>

\* line 50: `await redis.set("mcp_tools_cache", json.dumps(all_tools), ex=300)`
CacheSet ==
    /\ orch.pc = "cache_set"
    /\ redis = "up"
    /\ store' = redis_set(store, cache_key, catalog_dumps(orch.all_tools), cache_ttl, now)
    /\ orch' = returned(orch, orch.all_tools)
    /\ UNCHANGED <<servers, started, clients, exit_stack, opened, closed>>
    /\ UNCHANGED <<now, ticks, redis, workers, nreq, admitted>>
    /\ UNCHANGED <<turn_vars, ext_vars>>

\* check_health, lines 54-61: one entry per tracked client
check_health(cl) ==
    [name \in client_names(cl) |->
        LET client == cl[CHOOSE i \in DOMAIN cl : cl[i].name = name]
        IN  IF client.session THEN "connected" ELSE "disconnected"]

CheckHealth ==
    /\ orch.pc = "idle"
    /\ nreq < MaxOps
    /\ nreq' = nreq + 1
    /\ orch' = returned([IdleOrch EXCEPT !.op = "check_health"], check_health(clients))
    /\ UNCHANGED <<servers, started, clients, exit_stack, opened, closed>>
    /\ UNCHANGED <<now, ticks, store, redis, workers, admitted>>
    /\ UNCHANGED <<turn_vars, ext_vars>>

\* call_mcp_tool, lines 64-67, and call_tool, lines 48-49
call_mcp_tool(o, cl) ==
    IF o.server_name \notin client_names(cl)
    THEN raised(o, "Exception: MCP Server not found or not connected")
    ELSE [o EXCEPT !.pc = "call_tool"]

CallMcpTool ==
    /\ orch.pc = "idle"
    /\ nreq < MaxOps
    /\ nreq' = nreq + 1
    /\ \E server_name \in Range(MCP_SERVERS) :
          orch' = call_mcp_tool([IdleOrch EXCEPT !.op = "call_mcp_tool",
                                                 !.server_name = server_name], clients)
    /\ UNCHANGED <<servers, started, clients, exit_stack, opened, closed>>
    /\ UNCHANGED <<now, ticks, store, redis, workers, admitted>>
    /\ UNCHANGED <<turn_vars, ext_vars>>

\* what `asyncio.wait_for(self.session.call_tool(name, arguments), timeout)`
\* can do: return, raise TimeoutError after the timeout, or raise the
\* exception of the transport
CallOutcomes(state) == IF state = "up" THEN {"ok", "timeout"} ELSE {"raise", "timeout"}

\* call_tool, lines 53-79: the content is returned; a TimeoutError and any
\* other exception are logged and raised again; the status goes to the
\* metrics
call_tool(o, outcome) ==
    CASE outcome = "ok"      -> returned([o EXCEPT !.metric = "success"], [content |-> "ok"])
      [] outcome = "timeout" -> raised([o EXCEPT !.metric = "timeout"], "TimeoutError")
      [] OTHER               -> raised([o EXCEPT !.metric = "error"], "Exception")

CallTool ==
    /\ orch.pc = "call_tool"
    /\ \E outcome \in CallOutcomes(servers[orch.server_name]) :
          orch' = call_tool(orch, outcome)
    /\ UNCHANGED <<servers, started, clients, exit_stack, opened, closed>>
    /\ UNCHANGED <<turn_vars, gov_vars, ext_vars>>

\* the subprocess of a connected server stops answering
ServerFails ==
    /\ started
    /\ \E name \in Range(MCP_SERVERS) :
          /\ servers[name] = "up"
          /\ servers' = [servers EXCEPT ![name] = "exited"]
    /\ UNCHANGED <<started, clients, exit_stack, opened, closed, orch>>
    /\ UNCHANGED <<turn_vars, gov_vars, ext_vars>>

\* half of the time to live of the cached catalog passes between two
\* operations; the store removes the keys whose time to live has run out
Elapse ==
    /\ ticks < MaxTicks
    /\ orch.pc = "idle"
    /\ ticks' = ticks + 1
    /\ now' = now + cache_ttl \div 2
    /\ store' = expire_keys(store, now')
    /\ UNCHANGED <<redis, workers, nreq, admitted>>
    /\ UNCHANGED <<turn_vars, orch_vars, ext_vars>>

\* the orchestrator as constructed; the store is connected or there is no
\* connection object; each configured server can or cannot be launched
OrchInit ==
    /\ TurnInit
    /\ now = 0
    /\ ticks = 0
    /\ store = << >>
    /\ redis \in {"up", "none"}
    /\ workers = [s \in Workers |-> IdleWorker]
    /\ nreq = 0
    /\ admitted = << >>
    /\ servers \in [Range(MCP_SERVERS) -> ServerStates]
    /\ OrchNew
    /\ ExtQuiet

NextOrch ==
    \/ Initialize
    \/ ConnectStdio
    \/ ConnectSession
    \/ ConnectHandshake
    \/ Shutdown
    \/ ListAllTools
    \/ CacheGet
    \/ ListTools
    \/ CacheSet
    \/ CheckHealth
    \/ CallMcpTool
    \/ CallTool
    \/ ServerFails
    \/ Elapse

SpecOrch == OrchInit /\ [][NextOrch]_vars

----------------------------------------------------------------------------
(* The turn of Spec with budget_service connected at startup; its          *)
(* subprocess can stop answering at any time of the turn, after which the  *)
(* tools offered are no longer those of the catalog fetched at the start.  *)

InitSnapshot ==
    /\ TurnInit
    /\ GovQuiet
    /\ servers = [n \in Range(MCP_SERVERS) |->
                     IF n = "budget_service" THEN "up" ELSE "absent"]
    /\ started = TRUE
    /\ clients = <<Client("budget_service")>>
    /\ exit_stack = <<Ctx("budget_service", "stdio_client"),
                      Ctx("budget_service", "ClientSession")>>
    /\ opened = Range(exit_stack)
    /\ closed = {}
    /\ orch = IdleOrch
    /\ ExtQuiet

NextSnapshot ==
    \/ Next
    \/ ServerFails

SpecSnapshot == InitSnapshot /\ [][NextSnapshot]_vars

----------------------------------------------------------------------------
(* The streamed turn: ChatService.generate_response_stream                 *)
(* (chat_service.py) consumed by the generator of the SSE endpoint         *)
(* chat_stream (chat_streaming.py).  A chunk the service yields is handed  *)
(* to the endpoint generator, which yields it to the HTTP response before  *)
(* the service runs on, so both yields are one step.                       *)

\* longest answer, in tokens, the provider streams
MaxTokens == 4

\* the fragments stream_completion can yield
StreamTokens == {"Hel", "lo"}

\* chat_streaming.py line 52
connected_chunk == [type |-> "connected", conversation_id |-> "c1"]

\* chat_service.py lines 253-257
token_chunk(token) == [type |-> "token", content |-> token, conversation_id |-> "c1"]

\* chat_service.py lines 269-272
service_done_chunk == [type |-> "done", conversation_id |-> "c1"]

\* chat_streaming.py line 69
endpoint_done_chunk == [type |-> "done"]

\* chat_streaming.py lines 73-77
error_chunk == [type |-> "error", error |-> "Exception", code |-> "STREAM_ERROR"]

\* f"data: {json.dumps(chunk)}\n\n"
sse_event(chunk) == [data |-> json_dumps(chunk)]

\* the chunk a consumer parses out of an SSE event
sse_chunk(event) == event.data.json

\* chat_streaming.py lines 50-52: the endpoint generator starts and announces
\* the connection
StreamOpen ==
    /\ stream.pc = "idle"
    /\ stream' = [stream EXCEPT !.pc = "service",
                                !.sse = Append(@, sse_event(connected_chunk))]
    /\ UNCHANGED <<turn_vars, gov_vars, orch_vars, mcp_client, provider, regen>>

\* chat_service.py lines 233-250: the service saves the user message and
\* builds the history
StreamBegin ==
    /\ stream.pc = "service"
    /\ messages_db' = Append(messages_db, UserMessage)
    /\ formatted_messages' = <<[role |-> "system",
                                content |-> [intent |-> detect_intent(UserMessage.content)]]>>
                                  \o <<UserMessage>>
    /\ stream' = [stream EXCEPT !.pc = "streaming"]
    /\ UNCHANGED <<pc, mcp_tools, message, round, has_error, llm_calls, sent, tasks,
                   tool_executions, executed, batches, emitted, responses, response,
                   retval>>
    /\ UNCHANGED <<gov_vars, orch_vars, mcp_client, provider, regen>>

\* chat_service.py lines 251-257 and chat_streaming.py lines 55-66: the
\* provider yields a fragment, the service collects and yields it, the
\* endpoint sends it
StreamToken ==
    /\ stream.pc = "streaming"
    /\ Len(stream.produced) < MaxTokens
    /\ \E token \in StreamTokens :
          stream' = [stream EXCEPT
                        !.produced = Append(@, token),
                        !.collected_tokens = Append(@, token),
                        !.events = Append(@, token_chunk(token)),
                        !.sse = Append(@, sse_event(token_chunk(token)))]
    /\ UNCHANGED <<turn_vars, gov_vars, orch_vars, mcp_client, provider, regen>>

\* stream_completion raises: the exception leaves generate_response_stream
\* and is caught by the endpoint (chat_streaming.py lines 71-78)
StreamRaises ==
    /\ stream.pc = "streaming"
    /\ stream' = [stream EXCEPT !.pc = "failed",
                                !.sse = Append(@, sse_event(error_chunk))]
    /\ UNCHANGED <<turn_vars, gov_vars, orch_vars, mcp_client, provider, regen>>

\* "".join(collected_tokens)
join(tokens) == [joined |-> tokens]

\* chat_service.py lines 259-272: the provider's stream is exhausted, the
\* assistant message is saved, the service yields its done chunk and the
\* endpoint sends it
StreamFinish ==
    /\ stream.pc = "streaming"
    /\ messages_db' = Append(messages_db,
                             [role |-> "assistant", content |-> join(stream.collected_tokens)])
    /\ stream' = [stream EXCEPT !.pc = "exhausted",
                                !.events = Append(@, service_done_chunk),
                                !.sse = Append(@, sse_event(service_done_chunk))]
    /\ UNCHANGED <<pc, formatted_messages, mcp_tools, message, round, has_error, llm_calls,
                   sent, tasks, tool_executions, executed, batches, emitted, responses,
                   response, retval>>
    /\ UNCHANGED <<gov_vars, orch_vars, mcp_client, provider, regen>>

\* chat_streaming.py lines 66-69: the service generator returns, the endpoint
\* sends its completion event
StreamClose ==
    /\ stream.pc = "exhausted"
    /\ stream' = [stream EXCEPT !.pc = "closed",
                                !.sse = Append(@, sse_event(endpoint_done_chunk))]
    /\ UNCHANGED <<turn_vars, gov_vars, orch_vars, mcp_client, provider, regen>>

NextStream ==
    \/ StreamOpen
    \/ StreamBegin
    \/ StreamToken
    \/ StreamRaises
    \/ StreamFinish
    \/ StreamClose

SpecStream == Init /\ [][NextStream]_vars

----------------------------------------------------------------------------
(* One MCPClient (app/mcp/client.py) used directly, as the unit tests do:  *)
(* list_tools and call_tool can be called before connect, and after a      *)
(* connect that failed.                                                    *)

\* number of operations called on the client
MaxClientOps == 4

\* the operation op is called on client c
called(c, op) ==
    [c EXCEPT !.op = op, !.ops = @ + 1, !.metric = "none",
              !.at_call = [session |-> c.session, requests |-> c.requests]]

\* a variant that takes the session for granted
session_assumed(c) == TRUE

\* lines 35 and 48: `if not self.session` is false
has_session(c) == c.session

\* connect, lines 17-32, on the server in state `state`: the session is kept
\* only after session.initialize() has returned
connect(c, state) ==
    LET stdio == Ctx(c.name, "stdio_client")
        sess == Ctx(c.name, "ClientSession")
    IN  CASE state = "absent" -> raised(c, "Exception")
          [] state = "up" ->
                returned([c EXCEPT !.session = TRUE, !.requests = @ + 1,
                                   !.contexts = @ \o <<stdio, sess>>],
                         [session |-> c.name])
          [] OTHER ->
                raised([c EXCEPT !.requests = @ + 1, !.contexts = @ \o <<stdio, sess>>],
                       "Exception")

ClientConnect ==
    /\ mcp_client.ops < MaxClientOps
    /\ ~mcp_client.session
    /\ mcp_client' = connect(called(mcp_client, "connect"), servers[mcp_client.name])
    /\ UNCHANGED <<turn_vars, gov_vars, orch_vars, stream, provider, regen>>

\* list_tools, lines 34-45
client_list_tools(c, state) ==
    IF ~has_session(c) THEN returned(c, <<>>)
    ELSE LET asked == [c EXCEPT !.requests = @ + 1]
         IN  IF state = "up" THEN returned(asked, list_tools(c.name))
             ELSE raised(asked, "Exception")

ClientListTools ==
    /\ mcp_client.ops < MaxClientOps
    /\ mcp_client' = client_list_tools(called(mcp_client, "list_tools"),
                                       servers[mcp_client.name])
    /\ UNCHANGED <<turn_vars, gov_vars, orch_vars, stream, provider, regen>>

\* call_tool, lines 47-79
client_call_tool(c, outcome) ==
    IF ~has_session(c) THEN raised(c, "Exception: MCP Client not connected")
    ELSE call_tool([c EXCEPT !.requests = @ + 1], outcome)

ClientCallTool ==
    /\ mcp_client.ops < MaxClientOps
    /\ \E outcome \in CallOutcomes(servers[mcp_client.name]) :
          mcp_client' = client_call_tool(called(mcp_client, "call_tool"), outcome)
    /\ UNCHANGED <<turn_vars, gov_vars, orch_vars, stream, provider, regen>>

\* the subprocess of the client stops answering
ClientServerFails ==
    /\ mcp_client.session
    /\ servers[mcp_client.name] = "up"
    /\ servers' = [servers EXCEPT ![mcp_client.name] = "exited"]
    /\ UNCHANGED <<started, clients, exit_stack, opened, closed, orch>>
    /\ UNCHANGED <<turn_vars, gov_vars, ext_vars>>

NextClient ==
    \/ ClientConnect
    \/ ClientListTools
    \/ ClientCallTool
    \/ ClientServerFails

SpecClient == OrchInit /\ [][NextClient]_vars

-----------------------------------------------------------------------------
(* ChatService.regenerate_last_response over the conversations and messages
   tables *)

MaxRegens == 2

\* user.id of the authenticated callers
UserIds == {u.id : u \in Users}

ConversationIds == {"c1", "c2", "c3"}

\* a row of the messages table; the rows of the table are kept in created_at
\* order
Row(n, c, role, content) == [id |-> n, conversation_id |-> c, role |-> role, content |-> content]

\* the tables left by earlier turns of generate_response: c1 belongs to u1,
\* c2 to u2, c3 does not exist; every turn saved its user row and, when it
\* returned, its assistant row
EarlierTables ==
    {[conversations |-> {[id |-> "c1", user_id |-> "u1"], [id |-> "c2", user_id |-> "u2"]},
      messages |-> h] :
        h \in {<< >>,
               <<Row(1, "c1", "user", 1)>>,
               <<Row(1, "c1", "user", 1), Row(2, "c1", "assistant", 2)>>,
               <<Row(1, "c1", "user", 1), Row(2, "c1", "assistant", 2),
                 Row(3, "c2", "user", 3), Row(4, "c2", "assistant", 4)>>,
               <<Row(1, "c1", "user", 1), Row(2, "c1", "assistant", 2),
                 Row(3, "c1", "user", 3), Row(4, "c1", "assistant", 4)>>}}

\* select(Message).where(Message.conversation_id == c).order_by(created_at)
conversation_messages(r, c) ==
    LET of_c(m) == m.conversation_id = c
    IN  SelectSeq(r.messages, of_c)

\* db.delete(row)
delete_row(rows, row) ==
    LET kept(m) == m.id # row.id
    IN  SelectSeq(rows, kept)

RegenInit ==
    /\ TurnInit
    /\ GovQuiet
    /\ OrchQuiet
    /\ stream = IdleStream
    /\ mcp_client = NewClient
    /\ provider = "deepseek"
    /\ regen \in {NoRegen(t) : t \in EarlierTables}

\* lines 274-279: the call starts and selects the newest message of the
\* conversation, by conversation_id alone
RegenerateLastResponse(u, c) ==
    /\ regen.pc \in {"idle", "returned", "raised"}
    /\ regen.calls < MaxRegens
    /\ regen' = [regen EXCEPT
           !.pc = "selected",
           !.calls = @ + 1,
           !.user_id = u,
           !.conversation_id = c,
           !.chat_messages = << >>,
           !.last_msg = IF conversation_messages(regen, c) = << >>
                          THEN None
                          ELSE conversation_messages(regen, c)[Len(conversation_messages(regen, c))]]
    /\ UNCHANGED <<turn_vars, gov_vars, orch_vars, stream, mcp_client, provider>>

\* lines 281-283: a newest message of role assistant is deleted and the
\* deletion committed
DeleteLast ==
    /\ regen.pc = "selected"
    /\ regen' = [regen EXCEPT
           !.pc = "history",
           !.messages = IF regen.last_msg # None /\ regen.last_msg.role = "assistant"
                          THEN delete_row(@, regen.last_msg)
                          ELSE @]
    /\ UNCHANGED <<turn_vars, gov_vars, orch_vars, stream, mcp_client, provider>>

\* lines 285-289: the remaining messages of the conversation become the chat
\* history
LoadHistory ==
    /\ regen.pc = "history"
    /\ regen' = [regen EXCEPT
           !.pc = "get_or_create",
           !.chat_messages = [k \in DOMAIN conversation_messages(regen, regen.conversation_id) |->
                                 [role |-> conversation_messages(regen, regen.conversation_id)[k].role,
                                  content |-> conversation_messages(regen, regen.conversation_id)[k].content]]]
    /\ UNCHANGED <<turn_vars, gov_vars, orch_vars, stream, mcp_client, provider>>

\* get_or_create_conversation, lines 19-31, called at line 139: the
\* conversation of this id and this user is returned; otherwise a row with
\* this id is inserted, which the primary key refuses when the id is taken
GetOrCreateConversation ==
    /\ regen.pc = "get_or_create"
    /\ regen' =
         IF [id |-> regen.conversation_id, user_id |-> regen.user_id] \in regen.conversations
           THEN [regen EXCEPT !.pc = "save_user"]
           ELSE IF \E v \in regen.conversations : v.id = regen.conversation_id
                  THEN [regen EXCEPT !.pc = "raised"]
                  ELSE [regen EXCEPT
                           !.pc = "save_user",
                           !.conversations = @ \cup {[id |-> regen.conversation_id,
                                                      user_id |-> regen.user_id]}]
    /\ UNCHANGED <<turn_vars, gov_vars, orch_vars, stream, mcp_client, provider>>

\* generate_response lines 141-149: the content of messages[-1] is saved as a
\* user row; an empty history raises IndexError
SaveUserMessage ==
    /\ regen.pc = "save_user"
    /\ regen' =
         IF regen.chat_messages = << >>
           THEN [regen EXCEPT !.pc = "raised"]
           ELSE [regen EXCEPT
                    !.pc = "answer",
                    !.next_id = @ + 1,
                    !.messages = Append(@, Row(regen.next_id, regen.conversation_id, "user",
                                               regen.chat_messages[Len(regen.chat_messages)].content))]
    /\ UNCHANGED <<turn_vars, gov_vars, orch_vars, stream, mcp_client, provider>>

\* generate_response lines 151-223: the turn raises, or saves its assistant
\* row and returns
AnswerTurn ==
    /\ regen.pc = "answer"
    /\ \/ regen' = [regen EXCEPT !.pc = "raised"]
       \/ regen' = [regen EXCEPT
                       !.pc = "returned",
                       !.next_id = @ + 1,
                       !.messages = Append(@, Row(regen.next_id, regen.conversation_id,
                                                  "assistant", regen.next_id))]
    /\ UNCHANGED <<turn_vars, gov_vars, orch_vars, stream, mcp_client, provider>>

NextRegen ==
    \/ \E u \in UserIds, c \in ConversationIds : RegenerateLastResponse(u, c)
    \/ DeleteLast
    \/ LoadHistory
    \/ GetOrCreateConversation
    \/ SaveUserMessage
    \/ AnswerTurn

SpecRegen == RegenInit /\ [][NextRegen]_vars

----------------------------------------------------------------------------
(* Vocabulary of the properties *)

\* generate_response has returned or raised
Terminated == pc \in {"returned", "raised"}

\* the rows written for call i of batch b
Rows(b, i) == {k \in DOMAIN tool_executions :
                 tool_executions[k].batch = b /\ tool_executions[k].idx = i}

\* some call of batch b has an error row
BatchFailed(b) == \E k \in DOMAIN tool_executions :
                     tool_executions[k].batch = b /\ tool_executions[k].status = "error"

\* gather has returned the results of batch b and they were folded in
Folded(b) == b < Len(batches) \/ (b = Len(batches) /\ pc \notin {"gather", "raised"})

\* every coroutine of batch b has finished (returned or raised)
BatchOver(b) == b < Len(batches)
                \/ (b = Len(batches) /\ \A i \in DOMAIN tasks : tasks[i].pc \in {"done", "raised"})

\* every payload of the batch is a JSON document
WellFormed(calls) == \A i \in DOMAIN calls : json_loads(calls[i].arguments).ok

\* position in the history of the assistant message that opened batch b
AssistantPos(b) ==
    CHOOSE p \in DOMAIN formatted_messages :
        /\ formatted_messages[p].role = "assistant"
        /\ Cardinality({q \in 1..p : formatted_messages[q].role = "assistant"}) = b

\* steps generate_response and its coroutines can still take, as a number
\* that every step lowers
Rank ==
    LET stage == CASE pc = "start" -> 6
                   [] pc = "initial_call" -> 5
                   [] pc = "loop" -> 4
                   [] pc = "gather" -> 3
                   [] pc = "correction_call" -> 2
                   [] pc = "save" -> 1
                   [] OTHER -> 0
        left(t) == CASE t.pc = "exec" -> 2 [] t.pc = "persist" -> 1 [] OTHER -> 0
        pending[k \in 0..Len(tasks)] == IF k = 0 THEN 0 ELSE pending[k - 1] + left(tasks[k])
    IN  (2 * MaxCalls + 1) * (10 * (1 + max_corrections - llm_calls) + stage)
        + pending[Len(tasks)]

----------------------------------------------------------------------------
\* StartTurn, InitialCall, LoopTop, CorrectionCall and SaveAssistant have no
\* guard besides the position: at these positions a step is possible
AtUnguardedStep == pc \in {"start", "initial_call", "loop", "correction_call", "save"}

\* a step of a coroutine of the batch or of the gather that awaits them
GatherStep ==
    \/ \E i \in 1..MaxCalls : ProcessExecDone(i)
    \/ \E i \in 1..MaxCalls : ProcessPersist(i)
    \/ GatherRaise
    \/ FoldResults

(* C1: generate_response terminates whatever the model answers (every step *)
(* lowers Rank, which stays a natural number, and a step is possible until *)
(* it has returned or raised), it invokes chat_completion at most          *)
(* 1 + max_corrections = 3 times, and when every batch had a failing call  *)
(* and the last turn still asks for tools it has made exactly 3            *)
(* invocations when it returns.                                            *)
C1_BoundedCorrection ==
    /\ [](/\ llm_calls <= 1 + max_corrections
          /\ Rank >= 0
          /\ (Terminated \/ AtUnguardedStep \/ ENABLED GatherStep)
          /\ (/\ pc = "returned"
              /\ message.tool_calls # <<>>
              /\ \A b \in DOMAIN batches : BatchFailed(b))
             => llm_calls = 1 + max_corrections)
    /\ [][Rank' < Rank]_vars

\* the turn returned after two batches that each failed schema validation
C1_Witness ==
    /\ pc = "returned"
    /\ llm_calls = 3
    /\ Len(batches) = 2
    /\ message.tool_calls # <<>>
    /\ \A b \in DOMAIN batches :
          \E k \in DOMAIN tool_executions :
             /\ tool_executions[k].batch = b
             /\ tool_executions[k].error_message = [kind |-> "Schema validation failed",
                                                    detail |-> <<"type", "query">>]

(* C2: a turn that still contains tool calls is returned only when the     *)
(* round budget is exhausted, i.e. after max_corrections executed batches. *)
C2_ReturnsCallsOnlyWhenExhausted ==
    (pc = "returned" /\ message.tool_calls # <<>>) => Len(batches) = max_corrections

(* C3: once every coroutine of a batch has finished, each call of the      *)
(* batch, whatever its outcome, has exactly one ToolExecution row.         *)
C3_OneRecordPerCall ==
    \A b \in DOMAIN batches :
       BatchOver(b) => \A i \in DOMAIN batches[b] : Cardinality(Rows(b, i)) = 1

\* the row of call i of batch b (there is one once the call has returned)
RowOf(b, i) == tool_executions[CHOOSE k \in DOMAIN tool_executions : k \in Rows(b, i)]

\* the message that the fold put at the place of call i of batch b
ResultMsg(b, i) == formatted_messages[AssistantPos(b) + i]

\* the catalog of the turn: local registry names and remote catalog names
CatalogNames == Range(tool_names(registry_tools)) \cup Range(tool_names(mcp_tools))

\* the declared schema of a catalog name, as the code looks it up
SchemaOf(n) ==
    IF get_tool(n).found THEN get_tool(n).input_schema
    ELSE IF find_mcp_tool(mcp_tools, n).found THEN find_mcp_tool(mcp_tools, n).input_schema
    ELSE NoSchema

(* C4: in a batch whose payloads are all JSON documents, whichever calls   *)
(* fail (timeout, capability exception, schema violation, unknown name),   *)
(* no coroutine raises and generate_response does not raise; once the      *)
(* batch is folded the history holds, for every call of the batch, a tool  *)
(* message with the result of that call.                                   *)
C4_FailureIsolation ==
    \A b \in DOMAIN batches :
       WellFormed(batches[b]) =>
          /\ b = Len(batches) => /\ pc # "raised"
                                 /\ \A i \in DOMAIN tasks : tasks[i].pc # "raised"
          /\ Folded(b) =>
                \A i \in DOMAIN batches[b] :
                   /\ Cardinality(Rows(b, i)) = 1
                   /\ ResultMsg(b, i).role = "tool"
                   /\ ResultMsg(b, i).content = json_dumps(RowOf(b, i).result)

\* a folded batch of three calls: one timed out, one raised, one succeeded
C4_Witness ==
    /\ Len(batches) = 1
    /\ Len(batches[1]) = 3
    /\ Folded(1)
    /\ RowOf(1, 1).error_message = [kind |-> "Exception", detail |-> <<"timeout">>]
    /\ RowOf(1, 2).error_message = [kind |-> "Exception", detail |-> <<"raise">>]
    /\ RowOf(1, 3).status = "success"
    /\ ResultMsg(1, 3).content = json_dumps([result |-> RowOf(1, 3).tool_name])

(* C5: the tool messages of a folded batch stand in the history in the     *)
(* order in which the model requested the calls, whatever the order in     *)
(* which the calls completed.                                              *)
C5_RequestOrder ==
    \A b \in DOMAIN batches :
       Folded(b) =>
          [i \in DOMAIN batches[b] |-> <<ResultMsg(b, i).tool_call_id, ResultMsg(b, i).content>>]
          = [i \in DOMAIN batches[b] |-> <<batches[b][i].id, json_dumps(RowOf(b, i).result)>>]

\* a folded batch whose second call was committed before its first call
C5_Witness ==
    /\ Len(batches) >= 1
    /\ Len(batches[1]) >= 2
    /\ Folded(1)
    /\ batches[1][1].id # batches[1][2].id
    /\ \E k1, k2 \in DOMAIN tool_executions :
          /\ k1 \in Rows(1, 1)
          /\ k2 \in Rows(1, 2)
          /\ k2 < k1

\* the tool messages of batch b in a history h
ToolMsgs(h, b) == [i \in DOMAIN batches[b] |-> h[AssistantPos(b) + i]]

(* C6: in the history passed to the model after a batch, every tool        *)
(* message of the batch carries the id of the call whose result it holds   *)
(* (failed and fuzzy-corrected calls too), unchanged from what was folded; *)
(* two results of a batch carry the same id only if the requests did.      *)
C6_CallIdRoundTrip ==
    \A b \in DOMAIN batches :
       (Folded(b) /\ llm_calls > b) =>
          /\ Len(sent) >= AssistantPos(b) + Len(batches[b])
          /\ ToolMsgs(sent, b) = ToolMsgs(formatted_messages, b)
          /\ \A i \in DOMAIN batches[b] :
                /\ ToolMsgs(sent, b)[i].role = "tool"
                /\ ToolMsgs(sent, b)[i].tool_call_id = batches[b][i].id
                /\ ToolMsgs(sent, b)[i].name = RowOf(b, i).tool_name
          /\ \A i, j \in DOMAIN batches[b] :
                ToolMsgs(sent, b)[i].tool_call_id = ToolMsgs(sent, b)[j].tool_call_id
                   => batches[b][i].id = batches[b][j].id

\* the model was invoked with the results of a fuzzy-corrected call and of
\* a failed call
C6_Witness ==
    /\ Len(batches) >= 1
    /\ Len(batches[1]) = 2
    /\ llm_calls = 2
    /\ batches[1][1].name # RowOf(1, 1).tool_name
    /\ sent[AssistantPos(1) + 1].tool_call_id = batches[1][1].id
    /\ RowOf(1, 2).status = "error"
    /\ sent[AssistantPos(1) + 2].tool_call_id = batches[1][2].id

C8_ExactMatchPreferred ==
    \A i \in DOMAIN tasks :
       LET call == batches[Len(batches)][i]
       IN  (json_loads(call.arguments).ok /\ call.name \in CatalogNames)
           => /\ tasks[i].resolved_name = call.name
              /\ ~tasks[i].fuzzy

\* an exact remote name was resolved while a local name is similar to it
C8_Witness ==
    /\ Len(tasks) = 1
    /\ batches[1][1].name = <<"a", "b", "c", "c">>
    /\ batches[1][1].name \in Range(tool_names(mcp_tools))
    /\ ReachesCutoff(ratio(<<"a", "b", "c", "b">>, batches[1][1].name))
    /\ tasks[1].resolved_name = <<"a", "b", "c", "c">>
    /\ tasks[1].kind = "mcp"

\* the catalog names whose similarity to n reaches the threshold
SimilarNames(n) == {c \in CatalogNames : ReachesCutoff(ratio(c, n))}

(* C9: for a requested name that is not in the catalog: if exactly one     *)
(* catalog name has similarity >= 0.7 to it, the call resolves to that     *)
(* name; if none has, the call fails as not found and nothing is executed. *)
C9_FuzzyResolution ==
    \A i \in DOMAIN tasks :
       LET b == Len(batches)
           call == batches[b][i]
       IN  (json_loads(call.arguments).ok /\ call.name \notin CatalogNames)
           => /\ Cardinality(SimilarNames(call.name)) = 1
                   => tasks[i].resolved_name \in SimilarNames(call.name)
              /\ SimilarNames(call.name) = {}
                   => /\ tasks[i].status = "error"
                      /\ tasks[i].error_msg = [kind |-> "Tool not found", detail |-> call.name]
                      /\ tasks[i].kind = "none"
                      /\ tasks[i].pc \in {"persist", "done"}
                      /\ \A e \in executed : ~(e.batch = b /\ e.idx = i)

\* a misspelt name with one similar catalog name was resolved and executed
C9_Witness ==
    /\ Len(tasks) = 1
    /\ batches[1][1].name \notin CatalogNames
    /\ Cardinality(SimilarNames(batches[1][1].name)) = 1
    /\ Cardinality(CatalogNames) = 4
    /\ tasks[1].resolved_name \in CatalogNames
    /\ tasks[1].pc = "done"
    /\ executed # {}

\* the contents of the error rows of batch b, in request order
FailedContents(b) ==
    LET n == Len(batches[b])
        F[k \in 0..n] ==
            IF k = 0 THEN <<>>
            ELSE IF RowOf(b, k).status = "error"
                 THEN Append(F[k - 1], json_dumps(RowOf(b, k).result))
                 ELSE F[k - 1]
    IN  F[n]

(* C10: after a folded batch the history holds exactly one diagnostic      *)
(* message if a call of the batch failed and none if all succeeded; the    *)
(* diagnostic lists the error text of exactly the failing calls; and the   *)
(* model is invoked again with the history that holds it.                  *)
C10_OneDiagnosticPerFailedBatch ==
    \A b \in DOMAIN batches :
       Folded(b) =>
          LET after == AssistantPos(b) + Len(batches[b]) + 1
              last == IF BatchFailed(b) THEN after ELSE after - 1
          IN  /\ IF BatchFailed(b)
                 THEN /\ Len(formatted_messages) >= after
                      /\ formatted_messages[after].role = "system"
                      /\ formatted_messages[after].content
                            = [failed_with |-> FailedContents(b)]
                 ELSE Len(formatted_messages) >= after
                         => formatted_messages[after].role # "system"
              /\ Len(formatted_messages) > last
                    => formatted_messages[last + 1].role = "assistant"
              /\ pc # "correction_call"
                    => /\ llm_calls >= b + 1
                       /\ Len(sent) >= last
                       /\ \A q \in 1..last : sent[q] = formatted_messages[q]

\* the model was invoked again after a batch with one failed and one
\* successful call, with a diagnostic that lists the one error
C10_Witness ==
    /\ Len(batches) = 1
    /\ Len(batches[1]) = 2
    /\ llm_calls = 2
    /\ RowOf(1, 1).status = "success"
    /\ RowOf(1, 2).status = "error"
    /\ sent[Len(sent)].role = "system"
    /\ sent[Len(sent)].content = [failed_with |-> <<json_dumps(RowOf(1, 2).result)>>]

----------------------------------------------------------------------------
\* the latest answer of the model and the assistant rows of the messages table
LastResponse == responses[Len(responses)]

AssistantRows == {k \in DOMAIN messages_db : messages_db[k].role = "assistant"}

\* row m holds the turn of response r: the same content (a turn without
\* content is stored with the empty text) and the same tool calls
HoldsTurn(m, r) ==
    LET out == r.choices[1].message
    IN  /\ m.role = "assistant"
        /\ out.content # None => m.content = out.content
        /\ out.content = None => m.content = ""
        /\ out.tool_calls # <<>> => m.tool_calls = out.tool_calls
        /\ out.tool_calls = <<>> => m.tool_calls = None

(* C11: when generate_response has returned, exactly one assistant message *)
(* has been persisted for the turn, it holds the content and the           *)
(* unresolved tool calls of the model's last answer unchanged, and the     *)
(* returned response is that last answer; this also holds when the round   *)
(* budget was used up.  Before the return no assistant message is          *)
(* persisted.                                                              *)
C11_LastOutputPersistedAndReturned ==
    /\ pc = "returned" =>
          /\ Cardinality(AssistantRows) = 1
          /\ HoldsTurn(messages_db[Len(messages_db)], LastResponse)
          /\ retval = LastResponse
          /\ Len(responses) = llm_calls
    /\ pc # "returned" => (AssistantRows = {} /\ retval = None)

\* a turn returned after the round budget was used up, whose last answer
\* has no content and still asks for a tool
C11_Witness ==
    /\ pc = "returned"
    /\ Len(batches) = max_corrections
    /\ llm_calls = 1 + max_corrections
    /\ LastResponse.choices[1].message.content = None
    /\ LastResponse.choices[1].message.tool_calls # <<>>
    /\ messages_db[Len(messages_db)].content = ""
    /\ messages_db[Len(messages_db)].tool_calls = retval.choices[1].message.tool_calls

(* C12: the loop ends at the first answer of the model without tool calls: *)
(* no chat_completion invocation follows it and it is the answer persisted *)
(* and returned.  If the first answer has none: one invocation, no tool    *)
(* executed, no ToolExecution row.  If a failing batch is followed by an   *)
(* answer without tool calls: two invocations, the second is returned.     *)
C12_EndsAtFirstTurnWithoutCalls ==
    /\ \A k \in DOMAIN responses :
          responses[k].choices[1].message.tool_calls = <<>> =>
             /\ Len(responses) = k
             /\ llm_calls = k
             /\ Len(batches) = k - 1
             /\ tasks = <<>>
             /\ pc \in {"loop", "save", "returned"}
             /\ pc = "returned" => /\ retval = responses[k]
                                   /\ HoldsTurn(messages_db[Len(messages_db)], responses[k])
    /\ (responses # <<>> /\ responses[1].choices[1].message.tool_calls = <<>>) =>
          /\ llm_calls = 1
          /\ executed = {}
          /\ tool_executions = <<>>
    /\ (/\ Len(responses) >= 2
        /\ BatchFailed(1)
        /\ responses[2].choices[1].message.tool_calls = <<>>) =>
          /\ llm_calls = 2
          /\ pc = "returned" => retval = responses[2]

\* the turn returned the second answer, which followed a batch that failed
\* schema validation and has no tool calls
C12_Witness ==
    /\ pc = "returned"
    /\ llm_calls = 2
    /\ Len(tool_executions) = 1
    /\ tool_executions[1].error_message # None
    /\ tool_executions[1].error_message.kind = "Schema validation failed"
    /\ responses[2].choices[1].message.tool_calls = <<>>
    /\ retval = responses[2]
    /\ messages_db[Len(messages_db)].content = [text |-> 2]

----------------------------------------------------------------------------
(* Vocabulary of the governor properties *)

\* number of calls _check_limit has admitted on key k
Admitted(k) == IF k \in DOMAIN admitted THEN Len(admitted[k]) ELSE 0

\* the keys of the rate windows of authenticated callers
RateKeys == {k \in DOMAIN admitted : k.prefix = "rate_limit"}

\* the ceiling of the window of rate key k for the tier of its caller
CeilingOf(k) ==
    LET u == CHOOSE u \in Users : u.id = k.id
        w == CHOOSE w \in DOMAIN Windows : Windows[w].name = k.window
    IN  window_limit(limits_for(u.tier), w)

(* C13: when the requests of one caller are handled one after another,     *)
(* then in every window (key) a call is admitted exactly while fewer than  *)
(* the ceiling L of the window have been admitted: at most L calls are     *)
(* admitted, a call that found L admitted is rejected with status 429      *)
(* "Rate limit exceeded", and the stored count of a window is the number   *)
(* of calls admitted in it, so that it restarts at 1 in a new window.      *)
C13_FirstLAdmittedThenRejected ==
    /\ \A k \in RateKeys :
          /\ Admitted(k) <= CeilingOf(k)
          /\ (k \in DOMAIN store /\ store[k].has_ttl) => store[k].value = Admitted(k)
    /\ \A s \in Workers :
          LET wk == workers[s]
          IN  /\ wk.pc \in {"set", "incr"} => Admitted(wk.key) < wk.limit
              /\ wk.pc = "set" => Admitted(wk.key) = 0
              /\ wk.pc = "ttl" => Admitted(wk.key) = wk.limit
              /\ (wk.pc = "done" /\ wk.outcome = "rejected") =>
                    /\ Admitted(wk.key) = wk.limit
                    /\ wk.limit = CeilingOf(wk.key)
                    /\ wk.detail.status_code = 429
                    /\ wk.detail.content.error = "Rate limit exceeded"
                    /\ wk.detail.content.limit = wk.limit
                    /\ ~wk.llm

\* twelve requests of a free caller: ten admitted in the first minute, the
\* eleventh rejected, and the twelfth, in the next minute, admitted with the
\* count 1
C13_Witness ==
    /\ nreq = 12
    /\ workers[1].pc = "done"
    /\ workers[1].outcome = "forwarded"
    /\ Admitted(rate_key("u1", 1, StartTime)) = tiers["free"].requests_per_minute
    /\ Admitted(rate_key("u1", 1, now)) = 1
    /\ store[rate_key("u1", 1, now)].value = 1
    /\ rate_key("u1", 1, StartTime) # rate_key("u1", 1, now)
    /\ rate_key("u1", 1, StartTime) \notin DOMAIN store

(* C14: under any interleaving of concurrent check_rate_limit calls of one *)
(* caller, the number of calls admitted in a window never exceeds the      *)
(* ceiling of the caller's tier for that window.                           *)
C14_AdmittedNeverExceedsCeiling ==
    \A k \in RateKeys : Admitted(k) <= CeilingOf(k)

(* C19: while a rate window key exists its stored count never decreases,   *)
(* under any interleaving of _check_limit calls on the key.                *)
C19_CountNeverDecreases ==
    [][\A k \in DOMAIN store \cap DOMAIN store' : store'[k].value >= store[k].value]_vars

\* the keys of window w of caller u that have admitted a call
KeysOf(u, w) == {k \in RateKeys : k.id = u.id /\ k.window = Windows[w].name}

\* number of calls admitted on the keys ks at the times lo .. hi - 1
RECURSIVE AdmittedIn(_, _, _)
AdmittedIn(ks, lo, hi) ==
    IF ks = {} THEN 0
    ELSE LET k == CHOOSE x \in ks : TRUE
         IN  Cardinality({i \in DOMAIN admitted[k] : lo <= admitted[k][i] /\ admitted[k][i] < hi})
             + AdmittedIn(ks \ {k}, lo, hi)

(* C15: the windows are rolling: for every caller and each of the three    *)
(* windows, the number of calls admitted in any interval of window_seconds *)
(* consecutive seconds (60, 3600, 86400), wherever it starts, does not     *)
(* exceed the ceiling of the window.  (It is enough to look at the         *)
(* intervals that start at the time of an admission.)                      *)
C15_RollingWindows ==
    \A u \in Users : \A w \in DOMAIN Windows :
       \A k \in KeysOf(u, w) : \A i \in DOMAIN admitted[k] :
          AdmittedIn(KeysOf(u, w), admitted[k][i],
                     admitted[k][i] + Windows[w].window_seconds)
             <= window_limit(limits_for(u.tier), w)

\* the daily ledger of quota key k: a missing key counts as 0
Ledger(st, k) == IF k \in DOMAIN st THEN st[k].value ELSE 0

\* the quota keys that have been charged
QuotaKeys == {k \in DOMAIN admitted : k.prefix = "token_usage"}

RECURSIVE SumSeq(_)
SumSeq(q) == IF q = <<>> THEN 0 ELSE Head(q) + SumSeq(Tail(q))

(* C16: check_token_usage(caller, tier, n) rejects exactly when the        *)
(* consumed amount it read plus n exceeds tokens_per_day of the tier, and  *)
(* a rejection changes nothing in the store; otherwise it admits and       *)
(* raises the ledger by exactly n.  The ledger of a day is the sum of the  *)
(* amounts of the admitted calls.                                          *)
C16_QuotaNoPartialCharge ==
    /\ [](\A k \in QuotaKeys : k \in DOMAIN store => store[k].value = SumSeq(admitted[k]))
    /\ [](\A s \in Workers :
            LET wk == workers[s]
            IN  wk.kind = "tokens" =>
                  /\ wk.limit \in {0, limits_for(wk.user.tier).tokens_per_day}
                  /\ (wk.pc = "done" /\ wk.outcome = "rejected") =>
                        /\ wk.count + wk.tokens > limits_for(wk.user.tier).tokens_per_day
                        /\ wk.detail.used = wk.count
                  /\ wk.pc \in {"tincr", "texpire"} =>
                        wk.count + wk.tokens <= limits_for(wk.user.tier).tokens_per_day)
    /\ [][\A s \in Workers :
            LET a == workers[s]
                b == workers'[s]
            IN  /\ (a.pc = "tget" /\ b.pc = "done") =>
                      /\ b.outcome = "rejected"
                      /\ Ledger(store, a.key) + a.tokens > a.limit
                      /\ store' = store
                /\ (a.pc = "tget" /\ b.pc = "tincr") =>
                      /\ Ledger(store, a.key) + a.tokens <= a.limit
                      /\ store' = store
                /\ (a.pc = "tincr" /\ b.pc = "texpire") =>
                      Ledger(store', a.key) = Ledger(store, a.key) + a.tokens
                /\ (a.pc = "texpire" /\ b.pc = "done") =>
                      /\ b.outcome = "admitted"
                      /\ Ledger(store', a.key) = Ledger(store, a.key)]_vars

\* with 50000 consumed, a call for 50001 has been rejected and the ledger
\* still holds 50000
C16_Witness ==
    /\ \E s \in Workers :
          /\ workers[s].pc = "done"
          /\ workers[s].outcome = "rejected"
          /\ workers[s].tokens = 50001
          /\ workers[s].count = 50000
          /\ Ledger(store, workers[s].key) = 50000
          /\ admitted[workers[s].key] = <<50000>>

(* C17: whenever the shared counter store is unavailable (there is no      *)
(* connection object, or the operations on the store fail), the governor   *)
(* admits: no request of an authenticated or of an anonymous caller and no *)
(* call of check_token_usage ends rejected or failed.                      *)
C17_FailsOpenWithoutStore ==
    redis # "up" =>
        \A s \in Workers :
            workers[s].pc = "done" => workers[s].outcome \in {"forwarded", "admitted"}

\* the checks a request to the chat path has passed before it is forwarded
RequiredChecks == {"minute", "hour", "day", "tokens"}

(* C18: for every request to the chat path, the three rate windows and the *)
(* quota check have been evaluated before the request reaches the LLM, and *)
(* no request that the governor rejected reaches the LLM.                  *)
C18_AllChecksBeforeLLM ==
    \A s \in Workers :
        LET wk == workers[s]
        IN  (wk.kind = "http" /\ wk.path = ChatPath) =>
               /\ wk.llm => RequiredChecks \subseteq {wk.checks[i] : i \in DOMAIN wk.checks}
               /\ wk.outcome = "rejected" => ~wk.llm

\* the keys of the counters of anonymous callers
IpKeys == {k \in DOMAIN admitted : k.prefix = "rate_limit:ip"}

(* C20: a request without an authenticated user is limited by a minute     *)
(* counter keyed by its client IP, not by a user id, with the ceiling 5,   *)
(* which is lower than the minute ceiling of every tier; when requests are *)
(* handled one after another, at most 5 requests of one IP are admitted in *)
(* a minute window and the request that finds 5 admitted (the 6th) is      *)
(* rejected with status 429 and does not reach the endpoint.               *)
C20_AnonymousLimitedByOrigin ==
    /\ \A tier \in DOMAIN tiers : ip_limit < tiers[tier].requests_per_minute
    /\ \A k \in IpKeys : Admitted(k) <= ip_limit
    /\ \A s \in Workers :
          LET wk == workers[s]
          IN  (wk.kind = "http" /\ wk.user = None /\ wk.path \notin SkipPaths) =>
                /\ wk.key.prefix = "rate_limit:ip"
                /\ wk.key.id = client_host(wk.client)
                /\ wk.key.window = "minute"
                /\ wk.limit = ip_limit
                /\ wk.pc \in {"set", "incr"} => Admitted(wk.key) < ip_limit
                /\ wk.pc \in {"call_next", "done"} /\ wk.outcome = "forwarded" =>
                      /\ wk.count = Admitted(wk.key)
                      /\ wk.checks = <<"minute">>
                /\ wk.pc = "ttl" => Admitted(wk.key) = ip_limit
                /\ (wk.pc = "done" /\ wk.outcome = "rejected") =>
                      /\ Admitted(wk.key) = ip_limit
                      /\ wk.detail.status_code = 429
                      /\ ~wk.llm

\* the sixth request of ip1 within the minute has been rejected
C20_Witness ==
    /\ nreq = 6
    /\ ticks = 0
    /\ workers[1].pc = "done"
    /\ workers[1].outcome = "rejected"
    /\ workers[1].client = [host |-> "ip1"]
    /\ Admitted(ip_key("ip1", StartTime)) = ip_limit
    /\ IpKeys = {ip_key("ip1", StartTime)}

----------------------------------------------------------------------------
(* Properties of the MCP orchestrator *)

\* the operation op has just ended
Ended(op) == orch.op = op /\ orch.pc = "idle"

\* the servers for which initialize has logged a successful connect
ConnectedAtStartup == {orch.log[i].server : i \in {j \in DOMAIN orch.log : orch.log[j].ok}}

(* C21: when initialize has ended it has returned, every configured server *)
(* has been attempted once, in the configured order, whether or not the    *)
(* connect of an earlier server raised, and the tracked clients are        *)
(* exactly the servers whose connect succeeded, each once under its id and *)
(* with its session set; a server that answers is tracked.                 *)
C21_InitializeSkipsFailedServers ==
    Ended("initialize") =>
        /\ orch.outcome = "returned"
        /\ [i \in DOMAIN orch.log |-> orch.log[i].server] = MCP_SERVERS
        /\ client_names(clients) = ConnectedAtStartup
        /\ Len(clients) = Cardinality(client_names(clients))
        /\ \A i \in DOMAIN clients :
              /\ clients[i].session
              /\ servers[clients[i].name] # "absent"
              /\ Ctx(clients[i].name, "ClientSession") \in Range(exit_stack)
        /\ \A name \in Range(MCP_SERVERS) :
              servers[name] = "up" => name \in client_names(clients)

\* the connect of the first server has raised and the second server is
\* tracked
C21_Witness ==
    /\ Ended("initialize")
    /\ servers["budget_service"] = "absent"
    /\ ~orch.log[1].ok
    /\ client_names(clients) = {"database_service"}

(* C22: list_all_tools does not fail when a connected server is            *)
(* unavailable at the time the catalog is fetched: it returns, and the     *)
(* catalog of a fan-out holds the tools of every tracked server that       *)
(* answers.                                                                *)
C22_CatalogDegradesWithoutFailing ==
    Ended("list_all_tools") =>
        /\ orch.outcome = "returned"
        /\ orch.queried # {} =>
              \A name \in client_names(clients) :
                 servers[name] = "up" => Range(list_tools(name)) \subseteq Range(orch.result)

\* the cached catalog is in the store
Cached(st) == cache_key \in DOMAIN st

(* C23: the catalog a fan-out has produced is stored for 300 seconds; a    *)
(* list_all_tools call that finds the entry returns that catalog and asks  *)
(* no server; a call that finds no entry (none was stored, or it has       *)
(* expired) asks the tracked servers again, all of them when they answer.  *)
C23_CatalogCachedForTtl ==
    /\ [](Cached(store) =>
            /\ store[cache_key].has_ttl
            /\ store[cache_key].expires > now
            /\ store[cache_key].expires <= now + cache_ttl
            /\ catalog_loads(store[cache_key].value) # <<>>)
    /\ []((Ended("list_all_tools") /\ orch.outcome = "returned" /\ orch.queried # {}) =>
            orch.queried = client_names(clients))
    /\ [][/\ (orch.pc = "cache_set" /\ orch' # orch) =>
              /\ orch'.outcome = "returned"
              /\ store'[cache_key].value = catalog_dumps(orch'.result)
              /\ store'[cache_key].expires = now + cache_ttl
          /\ (orch.pc = "cache_get" /\ orch' # orch /\ Cached(store)) =>
              /\ orch'.pc = "idle"
              /\ orch'.outcome = "returned"
              /\ orch'.result = catalog_loads(store[cache_key].value)
              /\ orch'.queried = {}
              /\ store' = store
          /\ (orch.pc = "cache_get" /\ orch' # orch /\ ~Cached(store)) =>
              IF clients = <<>> THEN orch'.pc = "idle" /\ orch'.result = <<>>
              ELSE orch'.pc = "list_tools" /\ orch'.i = 1]_vars

\* half of the time to live after a fan-out stored the catalog of both
\* servers, a call has returned that catalog without asking a server,
\* although both servers have stopped answering
C23_Witness ==
    /\ Ended("list_all_tools")
    /\ orch.outcome = "returned"
    /\ orch.queried = {}
    /\ Len(orch.result) = 2
    /\ Cached(store)
    /\ store[cache_key].expires = now + cache_ttl \div 2
    /\ \A name \in Range(MCP_SERVERS) : servers[name] = "exited"

(* C24: a remote invocation whose wait timed out or whose transport raised *)
(* ends by returning a result to its caller, not by raising.               *)
C24_RemoteFailureIsReturned ==
    (Ended("call_mcp_tool") /\ orch.metric \in {"timeout", "error"}) =>
        orch.outcome = "returned"

\* a step of shutdown
ShutdownStep == orch'.op = "shutdown" /\ nreq' = nreq + 1

(* C25: shutdown returns in every state in which it is called (before      *)
(* initialize, after connects have failed, after an earlier shutdown);     *)
(* when it has returned no client is tracked, the exit stack is empty and  *)
(* every context entered so far, also that of a server whose connect       *)
(* failed after it was entered, has been exited; a shutdown that follows a *)
(* shutdown changes nothing.                                               *)
C25_ShutdownReleasesEverything ==
    /\ [](closed \subseteq opened /\ Range(exit_stack) = opened \ closed)
    /\ [](Ended("shutdown") =>
            /\ orch.outcome = "returned"
            /\ clients = <<>>
            /\ exit_stack = <<>>
            /\ opened \subseteq closed)
    /\ [][(ShutdownStep /\ Ended("shutdown")) =>
             (orch' = orch /\ UNCHANGED <<clients, exit_stack, opened, closed, servers>>)]_vars

\* shutdown has returned after an initialize in which the connect of
\* budget_service failed with its two contexts entered, and the contexts
\* are exited
C25_Witness ==
    /\ Ended("shutdown")
    /\ started
    /\ servers["budget_service"] = "broken"
    /\ servers["database_service"] = "up"
    /\ closed = {Ctx(name, what) : name \in Range(MCP_SERVERS),
                                   what \in {"stdio_client", "ClientSession"}}

\* the session of server name is established: the client is tracked and the
\* server answers
Established(name) == name \in client_names(clients) /\ servers[name] = "up"

(* C26: check_health returns one entry for every configured server id:     *)
(* "connected" exactly when the session of that server is established at   *)
(* the time of the call, "disconnected" otherwise, also for a server whose *)
(* connect failed at startup.  (Stated for calls after initialize.)        *)
C26_HealthCoversConfiguredServers ==
    (started /\ Ended("check_health")) =>
        /\ DOMAIN orch.result = Range(MCP_SERVERS)
        /\ \A name \in Range(MCP_SERVERS) :
              orch.result[name] = IF Established(name) THEN "connected" ELSE "disconnected"

----------------------------------------------------------------------------
(* Properties of the execution records *)

\* number of times the capability of call i of batch b has been invoked
Attempts(b, i) == Cardinality({e \in executed : e.batch = b /\ e.idx = i})

\* the capability of the call of row r raised or timed out
CapabilityFailed(r) ==
    /\ r.status # "success"
    /\ r.error_message # None
    /\ r.error_message.kind = "Exception"

(* C27: a call whose execution raised is retried once: it is recorded as   *)
(* failed only after a second invocation of the capability has failed      *)
(* too, and no call is invoked more than twice.                            *)
C27_FailedExecutionRetriedOnce ==
    /\ \A k \in DOMAIN tool_executions :
          CapabilityFailed(tool_executions[k]) =>
              Attempts(tool_executions[k].batch, tool_executions[k].idx) = 2
    /\ \A e \in executed : Attempts(e.batch, e.idx) <= 2

\* the kind of outcome row r records
OutcomeKind(r) ==
    IF r.error_message = None THEN "success"
    ELSE CASE r.error_message.kind = "Schema validation failed" -> "validation_error"
           [] r.error_message.kind = "Tool not found"           -> "not_found"
           [] r.error_message.detail = <<"timeout">>            -> "timeout"
           [] OTHER                                             -> "execution_error"

(* C28: the status of every ToolExecution row is one of success,           *)
(* validation_error, not_found, execution_error and timeout, and two rows  *)
(* that record different kinds of outcome have different statuses.         *)
C28_StatusIdentifiesOutcomeKind ==
    /\ \A k \in DOMAIN tool_executions :
          tool_executions[k].status \in
              {"success", "validation_error", "not_found", "execution_error", "timeout"}
    /\ \A k, l \in DOMAIN tool_executions :
          OutcomeKind(tool_executions[k]) # OutcomeKind(tool_executions[l]) =>
              tool_executions[k].status # tool_executions[l].status

\* the tool call that row r was written for
CallOfRow(r) == batches[r.batch][r.idx]

\* the tool names that can be read in row r: the column tool_name, and the
\* name quoted in the error message of an unresolvable call
StoredNames(r) ==
    {r.tool_name} \cup
    (IF r.error_message # None /\ r.error_message.kind = "Tool not found"
     THEN {r.error_message.detail} ELSE {})

\* the names of the catalog of the turn: the local tools and the remote
\* catalog fetched at its start
SnapshotNames == Range(tool_names(registry_tools)) \cup Range(tool_names(mcp_tools))

(* C29: the row of a call whose requested name was replaced by fuzzy        *)
(* matching carries the resolved catalog name as its tool name, and the    *)
(* requested name can be read in the row too, so that the row differs from *)
(* that of a call that asked for the catalog name itself.                  *)
C29_SubstitutionStoredWithRecord ==
    \A k \in DOMAIN tool_executions :
        LET r == tool_executions[k]
        IN  CallOfRow(r).name # r.tool_name =>
               /\ r.tool_name \in SnapshotNames
               /\ CallOfRow(r).name \in StoredNames(r)

\* row r records a call that resolved to a tool
ResolvedRow(r) == r.error_message = None \/ r.error_message.kind # "Tool not found"

(* C30: within one turn the catalog fetched at the start is not replaced,  *)
(* and in every round every call is resolved against it: when a batch is   *)
(* started each call gets the name that the resolution against that        *)
(* catalog gives, the row of the call stores that name, and the name of    *)
(* every resolved call and of every invoked capability is a name of the    *)
(* local tools or of the fetched remote catalog, also when the servers     *)
(* offer other tools by the time of the call.                              *)
C30_ResolvedAgainstTurnSnapshot ==
    /\ [](\A k \in DOMAIN tool_executions :
            LET r == tool_executions[k]
            IN  /\ ResolvedRow(r) => r.tool_name \in SnapshotNames
                /\ (pc = "gather" /\ r.batch = Len(batches)) =>
                       r.tool_name = tasks[r.idx].resolved_name)
    /\ [](\A e \in executed : e.name \in SnapshotNames)
    /\ [][(pc = "loop" /\ pc' = "gather") =>
             \A i \in DOMAIN tasks' :
                tasks'[i].pc # "raised" =>
                   tasks'[i].resolved_name
                      = resolve(message.tool_calls[i].name, mcp_tools).resolved_name]_vars
    /\ [][pc # "start" => mcp_tools' = mcp_tools]_vars

\* in the second round a call has been resolved to the remote tool of the
\* fetched catalog and recorded, while budget_service has stopped answering
\* and offers no tool
C30_Witness ==
    /\ servers["budget_service"] = "exited"
    /\ tools_now(clients, servers) = <<>>
    /\ mcp_tools # <<>>
    /\ \E k \in DOMAIN tool_executions :
          /\ tool_executions[k].batch = 2
          /\ tool_executions[k].tool_name = mcp_tools[1].name
          /\ tool_executions[k].server_name = "budget_service"


----------------------------------------------------------------------------
\* an invocation of the provider has raised instead of returning a response
LLMFailed == llm_calls > Len(responses)

\* C31: when chat_completion fails in any round, generate_response raises to
\* its caller: it returns nothing, and no assistant message of the turn is in
\* the messages table, then or later.
C31_UpstreamFailureRaised ==
    LLMFailed =>
        /\ pc = "raised"
        /\ retval = None
        /\ \A k \in DOMAIN messages_db : messages_db[k].role # "assistant"

\* the provider fails in the last round, after two batches have been executed
\* and recorded
C31_Witness ==
    /\ LLMFailed
    /\ Len(batches) = max_corrections
    /\ tool_executions # <<>>
    /\ pc = "raised"


----------------------------------------------------------------------------
\* the events of a streamed turn: fragments and the terminal markers
TurnEventTypes == {"token", "done", "error"}
TerminalTypes == {"done", "error"}

\* the turn events among the chunks delivered to a consumer
TurnEvents(chunks) == SelectSeq(chunks, LAMBDA c : c.type \in TurnEventTypes)

\* the chunks the consumer of the SSE response has received
SseChunks == [k \in DOMAIN stream.sse |-> sse_chunk(stream.sse[k])]

\* token events carry the fragments in the order of production, and nothing
\* follows a terminal event
EventsInOrder(ev) ==
    LET toks == SelectSeq(ev, LAMBDA c : c.type = "token")
    IN  /\ \A k \in DOMAIN ev : ev[k].type \in TerminalTypes => k = Len(ev)
        /\ Len(toks) <= Len(stream.produced)
        /\ \A k \in DOMAIN toks : toks[k].content = stream.produced[k]

\* C32: the turn events delivered by generate_response_stream and by the SSE
\* endpoint are the token events in the order of production followed by
\* exactly one terminal event (done, or error on failure), and no event
\* follows the terminal event.
C32_StreamEndsWithOneTerminalEvent ==
    /\ EventsInOrder(TurnEvents(stream.events))
    /\ EventsInOrder(TurnEvents(SseChunks))
    /\ stream.pc \in {"closed", "failed"} =>
          LET ev == TurnEvents(SseChunks)
          IN  /\ ev # <<>>
              /\ ev[Len(ev)].type \in TerminalTypes
              /\ Len(SelectSeq(ev, LAMBDA c : c.type = "token")) = Len(stream.produced)


----------------------------------------------------------------------------
\* the number of tool messages in a history
ToolMessageCount(h) == Cardinality({p \in DOMAIN h : h[p].role = "tool"})

\* the number of calls of the batches 1 .. b
CallsUpTo(b) ==
    LET F[k \in 0..b] == IF k = 0 THEN 0 ELSE F[k - 1] + Len(batches[k])
    IN  F[b]

\* call i of the latest batch has returned and its row is in the table
Committed(i) == tasks[i].pc = "done" /\ Rows(Len(batches), i) # {}

\* C33: the results of a batch enter the history, and the model is invoked
\* again, only after every call of the batch has returned and its
\* ToolExecution row has been committed; until then the history ends with
\* the assistant message that opened the batch, and a history passed to the
\* model holds the results of whole batches only.
C33_BatchFoldedOnlyWhenComplete ==
    /\ [][(pc = "gather" /\ formatted_messages' # formatted_messages) =>
             /\ \A i \in DOMAIN tasks : Committed(i)
             /\ ToolMessageCount(formatted_messages')
                   = ToolMessageCount(formatted_messages) + Len(tasks)]_vars
    /\ [][(llm_calls' > llm_calls /\ batches # <<>>) =>
             /\ tasks = <<>>
             /\ \A i \in DOMAIN batches[Len(batches)] : Rows(Len(batches), i) # {}
             /\ ToolMessageCount(sent') = CallsUpTo(Len(batches))]_vars
    /\ [](pc = "gather" =>
             /\ formatted_messages[Len(formatted_messages)].role = "assistant"
             /\ ToolMessageCount(formatted_messages) = CallsUpTo(Len(batches) - 1))

\* the model has been invoked after a batch of three calls whose rows were
\* committed in the reverse order of the calls, one of them an error row
C33_Witness ==
    /\ Len(batches) = 1
    /\ Len(batches[1]) = 3
    /\ llm_calls = 2
    /\ ToolMessageCount(sent) = 3
    /\ \A k \in 1..3 : tool_executions[k].idx = 4 - k
    /\ tool_executions[1].status = "error"


----------------------------------------------------------------------------
\* the last operation on the client was op, called while it had no session
CalledUnconnected(op) ==
    /\ mcp_client.ops > 0
    /\ mcp_client.op = op
    /\ ~mcp_client.at_call.session

\* C34: on an MCPClient without an established session (never connected, or
\* its connect failed) list_tools returns the empty list without raising and
\* without a request to a subprocess, and call_tool raises the "not
\* connected" error without dispatching the call.
C34_NoSessionNoDispatch ==
    /\ CalledUnconnected("list_tools") =>
          /\ mcp_client.outcome = "returned"
          /\ mcp_client.result = <<>>
          /\ mcp_client.requests = mcp_client.at_call.requests
    /\ CalledUnconnected("call_tool") =>
          /\ mcp_client.outcome = "raised"
          /\ mcp_client.result = [exception |-> "Exception: MCP Client not connected"]
          /\ mcp_client.requests = mcp_client.at_call.requests
          /\ mcp_client.metric = "none"

\* call_tool has raised on a client whose connect had failed in the
\* handshake, with no request sent besides that of the connect
C34_Witness ==
    /\ ~mcp_client.session
    /\ servers[mcp_client.name] = "broken"
    /\ mcp_client.contexts # <<>>
    /\ mcp_client.op = "call_tool"
    /\ mcp_client.outcome = "raised"
    /\ mcp_client.requests = 1
    /\ mcp_client.at_call = [session |-> FALSE, requests |-> 1]
    /\ mcp_client.ops = 3


----------------------------------------------------------------------------
\* the tool calls an entry of a history lists
ListedCalls(m) ==
    IF m.role = "assistant" /\ "tool_calls" \in DOMAIN m THEN m.tool_calls ELSE <<>>

\* how often the call id x is listed by the entries q .. Len(h) of a history
ListedFrom(h, q, x) ==
    LET F[p \in (q - 1)..Len(h)] ==
            IF p = q - 1 THEN 0
            ELSE F[p - 1] + Cardinality({i \in DOMAIN ListedCalls(h[p]) :
                                            ListedCalls(h[p])[i].id = x})
    IN  F[Len(h)]

\* the tool messages after position q of a history that answer call id x
AnswersAfter(h, q, x) ==
    {p \in DOMAIN h : p > q /\ h[p].role = "tool" /\ h[p].tool_call_id = x}

\* C35: in every history passed to chat_completion, under every adapter,
\* each tool message comes after an assistant message that lists a call with
\* its call id, and every listed call has exactly one tool message after it
\* (as many tool messages carry an id as calls listing that id from there on).
C35_HistoryPairsCallsWithResults ==
    /\ \A p \in DOMAIN sent :
          sent[p].role = "tool" =>
             \E q \in 1..(p - 1) :
                \E i \in DOMAIN ListedCalls(sent[q]) :
                   ListedCalls(sent[q])[i].id = sent[p].tool_call_id
    /\ \A q \in DOMAIN sent :
          \A i \in DOMAIN ListedCalls(sent[q]) :
             LET x == ListedCalls(sent[q])[i].id
             IN  Cardinality(AnswersAfter(sent, q, x)) = ListedFrom(sent, q, x)


----------------------------------------------------------------------------
\* the tool calls of the answer to the k-th invocation of the model
AnswerCalls(k) == responses[k].choices[1].message.tool_calls

\* C36: every batch is the tool calls of one answer of the model, batch b of
\* the answer to invocation b; a folded batch is followed by exactly one
\* further invocation; when generate_response returns it has made
\* 1 + (number of batches) invocations, and the tool calls of the answer it
\* returns and persists belong to no batch: none was executed and none has a
\* ToolExecution row.  (A run that raises out of gather ends with as many
\* invocations as batches.)
C36_OneInvocationPerBatch ==
    /\ Len(batches) <= llm_calls
    /\ llm_calls <= 1 + Len(batches)
    /\ Len(responses) = llm_calls
    /\ \A b \in DOMAIN batches : batches[b] = AnswerCalls(b) /\ batches[b] # <<>>
    /\ \A b \in DOMAIN batches : (Folded(b) /\ pc # "correction_call") => llm_calls > b
    /\ pc = "raised" => llm_calls = Len(batches)
    /\ pc \in {"save", "returned"} => llm_calls = 1 + Len(batches)
    /\ pc = "returned" =>
          /\ retval = responses[llm_calls]
          /\ message.tool_calls = AnswerCalls(llm_calls)
          /\ messages_db[Len(messages_db)] = assistant_msg(message)
          /\ \A e \in executed : e.batch < llm_calls
          /\ \A k \in DOMAIN tool_executions : tool_executions[k].batch < llm_calls

\* generate_response has returned, after one all-success batch, an answer that
\* asks for the very call that batch had executed
C36_Witness ==
    /\ pc = "returned"
    /\ llm_calls = 2
    /\ Len(batches) = 1
    /\ ~BatchFailed(1)
    /\ AnswerCalls(2) = batches[1]
    /\ Cardinality(executed) = 1
    /\ Len(tool_executions) = 1


----------------------------------------------------------------------------
\* C37: a request that check_rate_limit rejects has changed no window
\* counter: the minute (and hour) counter it passed before the rejecting
\* window holds the value it had before the request.
C37_RejectionChangesNoCounter ==
    \A s \in Workers :
       (workers[s].kind = "http" /\ workers[s].outcome = "rejected") =>
          workers[s].changed = {}


----------------------------------------------------------------------------
\* the quota keys in the store, and the ceiling of the caller of a key
LedgerKeys == {k \in DOMAIN store : k.prefix = "token_usage"}
TokensPerDay(k) ==
    limits_for((CHOOSE u \in Users : u.id = k.id).tier).tokens_per_day

\* C38: whatever check_token_usage and record_token_usage calls of one caller
\* have run or are running within a day, the daily ledger of the caller does
\* not exceed tokens_per_day of the caller's tier.
C38_LedgerWithinDailyQuota ==
    \A k \in LedgerKeys : Ledger(store, k) <= TokensPerDay(k)


----------------------------------------------------------------------------
\* list_all_tools returns in this step
CatalogReturned ==
    /\ orch.pc # "idle" \/ nreq' # nreq
    /\ orch'.op = "list_all_tools"
    /\ orch'.pc = "idle"
    /\ orch'.outcome = "returned"

\* C39: every tool of a catalog that list_all_tools returns carries the id
\* of a server that is tracked in _clients at that moment, after any
\* sequence of initialize, list_all_tools and shutdown and whatever the
\* cache holds; a call routed by that id finds its client.
C39_CatalogNamesTrackedServers ==
    [][CatalogReturned =>
          \A k \in DOMAIN orch'.result :
             /\ orch'.result[k].server_name \in client_names(clients')
             /\ call_mcp_tool([IdleOrch EXCEPT !.server_name = orch'.result[k].server_name],
                              clients').outcome # "raised"]_vars

\* the caller of the regenerate call in progress is not the owner of its
\* conversation
NonOwnerStep ==
    /\ regen' # regen
    /\ regen'.pc # "idle"
    /\ [id |-> regen'.conversation_id, user_id |-> regen'.user_id] \notin regen.conversations

\* C40: no step of a regenerate_last_response call whose user_id does not own
\* the conversation deletes a message of that conversation or adds one to it,
\* whether the call ends by returning or by raising
C40_NonOwnerChangesNothing ==
    [][NonOwnerStep =>
          conversation_messages(regen', regen'.conversation_id)
              = conversation_messages(regen, regen'.conversation_id)]_vars

====
